---- MODULE Spec2Model ----
(***************************************************************************)
(* Stream lifecycle of the bulker engine: the file-storage stream          *)
(* (AbstractFileStorageStream), the transactional SQL stream               *)
(* (AbstractTransactionalSQLStream) and the ReplacePartition stream built  *)
(* on it.  One stream instance, driven by its caller through Consume,      *)
(* Complete and Abort, against a SQL adapter / file adapter whose calls    *)
(* may fail.                                                               *)
(***************************************************************************)
EXTENDS Integers, Sequences, FiniteSets, TLC

\* ------------------------------------------------------------------ bounds

\* number of Consume calls explored on one stream
MaxConsume == 2

\* how many Complete calls may end in a panic that the caller recovers from
MaxPanics == 1

\* ------------------------------------------------------------------ values

\* A value of an object: its dynamic type and its text as fmt.Sprint prints it.
IntV(txt) == [t |-> "int", s |-> txt]
StrV(txt) == [t |-> "str", s |-> txt]

\* fmt.Sprint(nil)
NilText == <<"<", "n", "i", "l", ">">>

\* fmt.Sprint of object[col]; a missing key reads as nil
Sprint(object, col) == IF col \in DOMAIN object THEN object[col].s ELSE NilText

PartitonIdKeyword == "__partition_id"

\* the objects the caller may pass to Consume
ObjA == [id |-> IntV(<<"1">>), k |-> StrV(<<"2">>), v |-> StrV(<<"a">>)]
ObjB == [id |-> IntV(<<"1">>), k |-> StrV(<<"2">>), v |-> StrV(<<"b">>)]
ObjC == [id |-> StrV(<<"2">>), k |-> StrV(<<"1">>), v |-> StrV(<<"c">>),
         __partition_id |-> StrV(<<"Q">>)]
Objects == {ObjA, ObjB, ObjC}

\* the partition id option of the ReplacePartition stream
PartitionP == StrV(<<"P">>)

\* the partition id of an option set without WithPartition: ""
NoPartition == StrV(<<>>)

\* time.Time as a count of ticks; the zero Time is the earliest of them
ZeroTime == 0
MaxTime == 2
EventTimes == ZeroTime..MaxTime

\* what time.Now() gives
Now == 1

\* ------------------------------------------------------------------ tables

NilTable == [nil |-> TRUE, Columns |-> {}]
TableOf(cols) == [nil |-> FALSE, Columns |-> cols]

\* destination tables a stream may find
DstAbsent == [exists |-> FALSE, Columns |-> {}, rows |-> <<>>]
DstUnmanaged ==
    [exists |-> TRUE, Columns |-> {"id", "k", "v"},
     rows |-> <<[id |-> IntV(<<"1">>), k |-> StrV(<<"2">>), v |-> StrV(<<"o">>)]>>]
DstManaged ==
    [exists |-> TRUE, Columns |-> {"id", "k", "v", "w", PartitonIdKeyword},
     rows |-> <<[id |-> IntV(<<"1">>), k |-> StrV(<<"2">>), v |-> StrV(<<"o">>),
                 __partition_id |-> StrV(<<"P">>)],
                [id |-> StrV(<<"2">>), k |-> StrV(<<"1">>), v |-> StrV(<<"o">>),
                 __partition_id |-> StrV(<<"Q">>)]>>]
Destinations == {DstAbsent, DstUnmanaged, DstManaged}

\* ------------------------------------------------------------------ state

VARIABLES
    ps,     \* the stream object: the fields of AbstractFileStorageStream /
            \* AbstractTransactionalSQLStream / ReplacePartitionStream
    db,     \* what the stream acts on: destination, tx, tmp table, local
            \* files, uploaded objects, and the log of adapter calls
    ret,    \* what the last operation returned to the caller
    hist    \* bookkeeping of the exploration: the destination found at
            \* creation, the number of Consume calls made, the options
            \* the constructor was called with

vars == <<ps, db, ret, hist>>

Kinds == {"fs", "tx", "rp"}
Formats == {"ndjson", "csv"}

\* bulker.State{Status: bulker.Active}
NewState ==
    [Status |-> "Active", ProcessedRows |-> 0, SuccessfulRows |-> 0,
     ErrorRowIndex |-> 0, LastError |-> "nil"]

\* The stream object right after its constructor returned without error.
NewStream(kind, merge, pkColumns, localBatchFile, format, s3Option) ==
    [kind |-> kind, merge |-> merge, pkColumns |-> pkColumns,
     partitionId |-> PartitionP, localBatchFile |-> localBatchFile,
     format |-> format,
     s3Option |-> s3Option,               \* s3BatchFileOption is given
     s3 |-> "nil",                        \* the S3 client
     inited |-> FALSE, batchFile |-> "nil",
     marshaller |-> "nil", targetMarshaller |-> "nil", flatten |-> FALSE,
     eventsInBatch |-> 0,
     firstEventTime |-> ZeroTime, lastEventTime |-> ZeroTime,
     csvHeader |-> {},                    \* keys seen, for the CSV header
     batchFileLinesByPK |-> <<>>, batchFileSkipLines |-> {},
     tx |-> "nil", tmpTable |-> NilTable, dstTable |-> NilTable,
     state |-> NewState]

NewDb(dst) ==
    [dst |-> dst,
     tx |-> "none",                       \* none, open, committed, rolledback
     tmp |-> [exists |-> FALSE, rows |-> <<>>],
     txCopy |-> <<>>,                     \* CopyTables issued in the open tx
     files |-> {},                        \* local files on disk
     handles |-> {},                      \* open file handles
     created |-> 0,                       \* batch files created so far
     fileLines |-> <<>>,                  \* lines of the batch file
     uploaded |-> <<>>,                   \* files given to fileAdapter.Upload
     uploadedLines |-> <<>>,              \* ... and the text lines of each
     loaded |-> <<>>,                     \* files given to tx.LoadTable
     ensured |-> <<>>,                    \* column sets given to EnsureTable
     staged |-> {},                       \* staging objects in the S3 bucket
     calls |-> <<>>]                      \* adapter calls: <<name, via, ok>>

\* what a constructor that fails hands back: no stream
NoStream ==
    [NewStream("none", FALSE, <<>>, FALSE, "ndjson", FALSE)
        EXCEPT !.partitionId = NoPartition, !.state.Status = "none"]

\* newAbstractFileStorageStream
newAbstractFileStorageStream(merge, pkColumns, format) ==
    IF merge /\ Len(pkColumns) = 0
    THEN [stream |-> NoStream,
          err |-> "MergeRows option requires primary key option"]
    ELSE [stream |-> NewStream("fs", merge, pkColumns, TRUE, format, FALSE),
          err |-> "nil"]

\* newAbstractTransactionalStream
newAbstractTransactionalStream(mode, merge, pkColumns, localBatchFile, format, s3Option) ==
    [stream |-> NewStream(mode, merge, pkColumns, localBatchFile, format, s3Option),
     err |-> "nil"]

\* a constructor that does not look at the partition id
newReplacePartitionStreamUnchecked(partitionId, merge, pkColumns, localBatchFile, format, s3Option) ==
    LET a == newAbstractTransactionalStream("rp", merge, pkColumns,
                                            localBatchFile, format, s3Option)
    IN [stream |-> [a.stream EXCEPT !.partitionId = partitionId], err |-> "nil"]

\* newReplacePartitionStream
newReplacePartitionStream(partitionId, merge, pkColumns, localBatchFile, format, s3Option) ==
    IF partitionId = NoPartition
    THEN [stream |-> NoStream,
          err |-> "WithPartition is required option for ReplacePartitionStream"]
    ELSE LET a == newAbstractTransactionalStream("rp", merge, pkColumns,
                                                 localBatchFile, format, s3Option)
         IN IF a.err # "nil" THEN [stream |-> NoStream, err |-> a.err]
            ELSE [stream |-> [a.stream EXCEPT !.partitionId = partitionId],
                  err |-> "nil"]

\* the option sets given to a constructor
PKOptions == {<<>>, <<"id">>, <<"id", "k">>}
OptionSets ==
    [kind : Kinds, merge : BOOLEAN, pk : PKOptions, partitionId : {NoPartition, PartitionP},
     localBatchFile : BOOLEAN, format : Formats, s3 : BOOLEAN, dst : Destinations]

\* option sets a constructor accepts: MergeRows needs a primary key, a
\* ReplacePartition stream its partition id
Configs ==
    {c \in OptionSets :
        /\ c.partitionId = PartitionP
        /\ c.merge <=> c.pk # <<>>
        /\ c.s3 => c.kind # "fs" /\ c.localBatchFile /\ c.format = "ndjson"
        /\ c.kind = "fs" => c.localBatchFile /\ c.dst = DstAbsent
        /\ ~c.localBatchFile => c.format = "ndjson"
        /\ c.kind = "tx" => c.dst = DstManaged
        /\ c.dst = DstUnmanaged => c.pk = <<>>}

\* option sets that lack a required option
MissingOption(c) ==
    \/ c.kind = "rp" /\ c.partitionId = NoPartition
    \/ c.kind = "fs" /\ c.merge /\ c.pk = <<>>
RejectedConfigs ==
    {c \in OptionSets :
        /\ MissingOption(c)
        /\ c.kind = "rp" => (c.merge <=> c.pk # <<>>) /\ c.dst = DstManaged
        /\ c.kind = "fs" => c.partitionId = PartitionP /\ c.dst = DstAbsent
        /\ c.localBatchFile /\ ~c.s3}

\* the constructor of the stream's kind, called with an option set
Construct(c) ==
    CASE c.kind = "fs" -> newAbstractFileStorageStream(c.merge, c.pk, c.format)
      [] c.kind = "tx" -> newAbstractTransactionalStream(
                              "tx", c.merge, c.pk, c.localBatchFile, c.format, c.s3)
      [] c.kind = "rp" -> newReplacePartitionStream(
                              c.partitionId, c.merge, c.pk, c.localBatchFile,
                              c.format, c.s3)

Init ==
    \E c \in Configs \cup RejectedConfigs :
        LET r == Construct(c) IN
        /\ ps = r.stream
        /\ db = NewDb(c.dst)
        /\ ret = [op |-> "new", err |-> r.err]
        /\ hist = [dst0 |-> c.dst, consumes |-> 0, panics |-> 0, options |-> c,
                   eventTimes |-> {}]

\* the record the handlers thread through their steps
St(p, d) == [ps |-> p, db |-> d]

\* one adapter call in the log
Log(s, name, via, ok) ==
    [s EXCEPT !.db.calls = Append(@, <<name, via, ok>>)]

\* what a step hands back: the state it leaves, the error it returns
\* ("nil" for none) and whether it panicked
Ok(s) == [s |-> s, err |-> "nil", panic |-> FALSE]
Err(s, e) == [s |-> s, err |-> e, panic |-> FALSE]
Panic(s) == [s |-> s, err |-> "panic", panic |-> TRUE]

\* State.SetError
SetError(s, e) == [s EXCEPT !.ps.state.LastError = e]

\* batchFile.Close(); os.Remove(batchFile.Name())
CloseRemove(s, name) ==
    [s EXCEPT !.db.handles = @ \ {name}, !.db.files = @ \ {name}]

\* the orders in which a range over the set pkColumns may visit its keys
Orders(cols) ==
    {q \in [1..Len(cols) -> {cols[i] : i \in 1..Len(cols)}] :
        \A i, j \in 1..Len(cols) : i # j => q[i] # q[j]}

RECURSIVE Concat(_)
Concat(seqs) == IF seqs = <<>> THEN <<>> ELSE Head(seqs) \o Concat(Tail(seqs))

\* sort.Strings on column names: byte order, '_' before the letters
SortedNames == <<"__partition_id", "id", "k", "v", "w">>
SortStrings(names) == SelectSeq(SortedNames, LAMBDA c : c \in names)

\* CSVMarshaller.Marshal: one cell per header column, in header order, the
\* text of the value, empty when the object has no such key
CSVRow(header, object) ==
    [i \in 1..Len(header) |->
        IF header[i] \in DOMAIN object THEN object[header[i]].s ELSE <<>>]

\* the lines of a file written by the CSV marshaller: Init writes the
\* header once, every Marshal one row
CSVLines(header, objects) ==
    <<header>> \o [i \in 1..Len(objects) |-> CSVRow(header, objects[i])]

\* ------------------------------------------------- file-storage stream

\* AbstractFileStorageStream.init
FSinit(s, f) ==
    IF s.ps.inited THEN Ok(s)
    ELSE IF s.ps.batchFile = "nil"
    THEN IF "CreateTemp" \in f THEN Err(s, "CreateTemp")
         ELSE LET s1 == [s EXCEPT !.ps.batchFile = "open",
                                  !.ps.marshaller = "set",
                                  !.db.created = @ + 1,
                                  !.db.files = @ \cup {"batch"},
                                  !.db.handles = @ \cup {"batch"}]
              IN IF "NewMarshaller" \in f THEN Err(s1, "NewMarshaller")
                 ELSE Ok([s1 EXCEPT !.ps.targetMarshaller = "set",
                                    !.ps.flatten = (s.ps.format = "csv"),
                                    !.ps.inited = TRUE])
    ELSE Ok([s EXCEPT !.ps.inited = TRUE])

\* AbstractFileStorageStream.preprocess; the objects here are flat, and
\* FlattenObject leaves a flat object as it is
FSpreprocess(s, object, f) ==
    IF s.ps.flatten /\ "Flatten" \in f THEN [obj |-> object, err |-> "Flatten"]
    ELSE [obj |-> object, err |-> "nil"]

\* AbstractFileStorageStream.postConsume
FSpostConsume(s, err) ==
    IF err # "nil"
    THEN SetError([s EXCEPT !.ps.state.ErrorRowIndex = s.ps.state.ProcessedRows], err)
    ELSE [s EXCEPT !.ps.state.SuccessfulRows = @ + 1]

\* AbstractFileStorageStream.getPKValue; ord is the order the range over
\* the set pkColumns happens to take
FSgetPKValue(p, object, ord) ==
    LET l == Len(p.pkColumns) IN
    IF l = 0 THEN [pk |-> <<>>, err |-> "primary key is not set"]
    ELSE IF l = 1
    THEN IF ord[1] \notin DOMAIN object
         THEN [pk |-> <<>>, err |-> "primary key is not found"]
         ELSE [pk |-> Sprint(object, ord[1]), err |-> "nil"]
    ELSE LET builder ==
                 Concat([i \in 1..l |->
                            IF ord[i] \in DOMAIN object
                            THEN Sprint(object, ord[i]) \o <<"_">>
                            ELSE <<>>])
         IN IF Len(builder) > 0 THEN [pk |-> builder, err |-> "nil"]
            ELSE [pk |-> <<>>, err |-> "primary key columns not found"]

\* the dedup bookkeeping of writeToBatchFile: the line of an earlier object
\* with this key is skipped, the key now points at the line being written
\* (the batch file is written by the NDJSON marshaller: NeedHeader() is false)
RecordPK(p, pk) ==
    [p EXCEPT
        !.batchFileSkipLines =
            IF pk \in DOMAIN p.batchFileLinesByPK
            THEN @ \cup {p.batchFileLinesByPK[pk]} ELSE @,
        !.batchFileLinesByPK = (pk :> p.eventsInBatch) @@ @]

\* marshaller.Marshal into the batch file: a write to a closed file fails
MarshalLine(s, object, f) ==
    IF "Marshal" \in f \/ "batch" \notin s.db.handles
    THEN Err(s, "Marshal")
    ELSE Ok([s EXCEPT !.db.fileLines = Append(@, object),
                      !.ps.eventsInBatch = @ + 1])

\* AbstractFileStorageStream.writeToBatchFile
FSwriteToBatchFile(s, object, f, ord) ==
    IF s.ps.merge
    THEN LET r == FSgetPKValue(s.ps, object, ord) IN
         IF r.err # "nil" THEN Err(s, r.err)
         ELSE MarshalLine([s EXCEPT !.ps = RecordPK(@, r.pk)], object, f)
    ELSE MarshalLine(s, object, f)

\* the event-time bookkeeping of Consume: IsZero() stands for "not set yet"
trackEventTime(p, eventTime) ==
    [p EXCEPT
        !.lastEventTime =
            IF p.lastEventTime = ZeroTime \/ eventTime > p.lastEventTime
            THEN eventTime ELSE @,
        !.firstEventTime =
            IF p.firstEventTime = ZeroTime \/ eventTime < p.firstEventTime
            THEN eventTime ELSE @]

\* AbstractFileStorageStream.Consume, the deferred postConsume included:
\* it runs on every return and also while a panic unwinds; eventTime is
\* what getEventTime gives for the object
FSConsume(s, object, f, ord, eventTime) ==
    LET i0 == FSinit(s, f) IN
    IF i0.err # "nil" THEN Err(FSpostConsume(i0.s, i0.err), i0.err)
    ELSE LET i == [i0 EXCEPT !.s.ps = trackEventTime(@, eventTime)]
             pre == FSpreprocess(i.s, object, f) IN
    IF pre.err # "nil" THEN Err(FSpostConsume(i.s, pre.err), pre.err)
    ELSE IF i.s.ps.targetMarshaller = "nil"
    THEN Panic(FSpostConsume(i.s, "nil"))
    ELSE LET h == IF i.s.ps.format = "csv"
                  THEN [i.s EXCEPT !.ps.csvHeader = @ \cup DOMAIN pre.obj]
                  ELSE i.s
             w == FSwriteToBatchFile(h, pre.obj, f, ord) IN
         [s |-> FSpostConsume(w.s, w.err), err |-> w.err, panic |-> FALSE]

\* the lines of the batch file whose 0-based index is not in skip, in order
RECURSIVE RetainedFrom(_, _, _)
RetainedFrom(lines, skip, i) ==
    IF i > Len(lines) THEN <<>>
    ELSE (IF (i - 1) \in skip THEN <<>> ELSE <<lines[i]>>)
             \o RetainedFrom(lines, skip, i + 1)
Retained(lines, skip) == RetainedFrom(lines, skip, 1)

\* the deferred cleanup of flushBatchFile: the dedup maps are reset and the
\* batch file is closed and removed
FlushDefer(s) ==
    CloseRemove([s EXCEPT
        !.ps.batchFileLinesByPK = IF s.ps.merge THEN <<>> ELSE @,
        !.ps.batchFileSkipLines = IF s.ps.merge THEN {} ELSE @], "batch")

\* ... and, once the working file exists, that one too
FlushDefer2(s) == CloseRemove(FlushDefer(s), "working")

\* AbstractFileStorageStream.flushBatchFile
FSflushBatchFile(s, f) ==
    IF s.ps.eventsInBatch = 0 THEN Ok(FlushDefer(s))
    ELSE IF "Flush" \in f THEN Err(FlushDefer(s), "Flush")
    ELSE IF "Sync" \in f THEN Err(FlushDefer(s), "Sync")
    ELSE IF s.ps.targetMarshaller = "nil" THEN Panic(FlushDefer(s))
    ELSE
    LET needToConvert == s.ps.format # "ndjson"
        rewrite == s.ps.batchFileSkipLines # {} \/ needToConvert
        kept == Retained(s.db.fileLines, s.ps.batchFileSkipLines)
        header == SortStrings(s.ps.csvHeader)
        sw == [s EXCEPT !.db.files = @ \cup {"working"},
                        !.db.handles = @ \cup {"working"}]
        so == [sw EXCEPT !.db.handles = @ \cup {"reread"}]
        \* Marshal errors of the target marshaller and the scanner's error
        \* are not looked at
        rows == IF "Scan" \in f THEN <<>>
                ELSE IF needToConvert /\ "Marshal2" \in f THEN Tail(kept)
                ELSE kept
        upload(x, content, cleanup(_)) ==
            IF "Seek" \in f THEN Err(cleanup(x), "Seek")
            ELSE IF "Upload" \in f
            THEN Err(cleanup(Log(x, "Upload", "fileAdapter", FALSE)), "Upload")
            ELSE Ok(cleanup(Log([x EXCEPT !.db.uploaded =
                                     Append(@, [format |-> s.ps.format,
                                                rows |-> content]),
                                          !.db.uploadedLines =
                                     Append(@, IF needToConvert
                                               THEN CSVLines(header, content)
                                               ELSE content)],
                                "Upload", "fileAdapter", TRUE)))
    IN
    IF ~rewrite THEN upload(s, s.db.fileLines, FlushDefer)
    ELSE IF "CreateTemp2" \in f THEN Err(FlushDefer(s), "CreateTemp2")
    ELSE IF needToConvert /\ "InitHeader" \in f THEN Err(FlushDefer2(sw), "InitHeader")
    ELSE IF "Open" \in f THEN Err(FlushDefer2(sw), "Open")
    ELSE IF needToConvert /\ "Decode" \in f THEN Err(FlushDefer2(so), "Decode")
    ELSE IF ~needToConvert /\ "Write" \in f THEN Err(FlushDefer2(so), "Write")
    ELSE upload(so, rows, FlushDefer2)

\* AbstractFileStorageStream.postComplete: batchFile.Name() on a nil
\* *os.File is a nil dereference
FSpostComplete(s, err) ==
    IF s.ps.batchFile = "nil" THEN Panic(s)
    ELSE LET s1 == CloseRemove(s, "batch") IN
         IF err # "nil"
         THEN Err([SetError(s1, err) EXCEPT !.ps.state.Status = "Failed"], err)
         ELSE Ok([s1 EXCEPT !.ps.state.Status = "Completed"])

\* Complete that flushes whether or not a Consume error was recorded
FSCompleteIgnoreLastError(s, f) ==
    IF s.ps.state.Status # "Active" THEN Err(s, "stream is not active")
    ELSE IF s.ps.state.SuccessfulRows > 0 /\ s.ps.batchFile # "nil"
    THEN LET fl == FSflushBatchFile(s, f) IN
         IF fl.panic THEN Panic(FSpostComplete(fl.s, "nil").s)
         ELSE FSpostComplete(fl.s, fl.err)
    ELSE FSpostComplete(s, s.ps.state.LastError)

\* AbstractFileStorageStream.Complete
FSComplete(s, f) ==
    IF s.ps.state.Status # "Active" THEN Err(s, "stream is not active")
    ELSE IF s.ps.state.LastError = "nil"
    THEN IF s.ps.state.SuccessfulRows > 0 /\ s.ps.batchFile # "nil"
         THEN LET fl == FSflushBatchFile(s, f) IN
              \* the deferred postComplete also runs while a panic unwinds
              IF fl.panic THEN Panic(FSpostComplete(fl.s, "nil").s)
              ELSE FSpostComplete(fl.s, fl.err)
         ELSE FSpostComplete(s, "nil")
    ELSE FSpostComplete(s, s.ps.state.LastError)

\* Abort without the test of the status
FSAbortAnyStatus(s) ==
    LET s1 == IF s.ps.batchFile # "nil" THEN CloseRemove(s, "batch") ELSE s
    IN Ok([s1 EXCEPT !.ps.state.Status = "Aborted"])

\* AbstractFileStorageStream.Abort
FSAbort(s) ==
    IF s.ps.state.Status # "Active" THEN Err(s, "stream is not active")
    ELSE LET s1 == IF s.ps.batchFile # "nil" THEN CloseRemove(s, "batch") ELSE s
         IN Ok([s1 EXCEPT !.ps.state.Status = "Aborted"])

\* ------------------------------------------------- SQL adapter and tx

NullV == [t |-> "null", s |-> <<>>]

\* the primary-key value of a row as the warehouse sees it
PKOf(row, cols) ==
    [i \in 1..Len(cols) |-> IF cols[i] \in DOMAIN row THEN row[cols[i]] ELSE NullV]

\* upsert by PK: the row replaces every row with its key
Upsert(rows, r, cols) ==
    SelectSeq(rows, LAMBDA x : PKOf(x, cols) # PKOf(r, cols)) \o <<r>>

RECURSIVE UpsertAll(_, _, _)
UpsertAll(rows, new, cols) ==
    IF new = <<>> THEN rows
    ELSE UpsertAll(Upsert(rows, Head(new), cols), Tail(new), cols)

\* CopyTables(dst, src, mergeMode): upsert by PK, or append
CopyRows(rows, src, merge, cols) ==
    IF merge THEN UpsertAll(rows, src, cols) ELSE rows \o src

\* the effect of every CopyTables of the tx, applied at Commit
RECURSIVE ApplyCopies(_, _, _)
ApplyCopies(rows, copies, cols) ==
    IF copies = <<>> THEN rows
    ELSE ApplyCopies(CopyRows(rows, Head(copies).rows, Head(copies).merge, cols),
                     Tail(copies), cols)

\* whether a statement sent through the stream's tx can run
TxOpen(s) == s.ps.tx # "nil" /\ s.db.tx = "open"

\* sqlAdapter.OpenTx
OpenTx(s, f) ==
    IF "OpenTx" \in f THEN Err(Log(s, "OpenTx", "sqlAdapter", FALSE), "OpenTx")
    ELSE Ok(Log([s EXCEPT !.ps.tx = "set", !.db.tx = "open"],
                "OpenTx", "sqlAdapter", TRUE))

\* tx.Rollback: idempotent, a no-op on a tx that is not open; the tmp table
\* lives no longer than its tx
TxRollback(s) ==
    IF TxOpen(s)
    THEN Log([s EXCEPT !.db.tx = "rolledback", !.db.txCopy = <<>>,
                       !.db.tmp = [exists |-> FALSE, rows |-> <<>>]],
             "Rollback", "tx", TRUE)
    ELSE Log(s, "Rollback", "tx", FALSE)

\* tx.Commit: the copies of the tx reach the destination; the tmp table
\* lives no longer than its tx
TxCommit(s, f) ==
    IF TxOpen(s) /\ "Commit" \notin f
    THEN Ok(Log([s EXCEPT
                    !.db.tx = "committed",
                    !.db.txCopy = <<>>,
                    !.db.tmp = [exists |-> FALSE, rows |-> <<>>],
                    !.db.dst.rows = ApplyCopies(@, s.db.txCopy, s.ps.pkColumns)],
                "Commit", "tx", TRUE))
    ELSE Err(Log(s, "Commit", "tx", FALSE), "Commit")

\* tx.Drop(tmpTable, ifExists); its error is looked at by no caller
TxDrop(s, f) ==
    IF TxOpen(s) /\ "Drop" \notin f
    THEN Log([s EXCEPT !.db.tmp = [exists |-> FALSE, rows |-> <<>>]],
             "Drop", "tx", TRUE)
    ELSE Log(s, "Drop", "tx", FALSE)

\* tx.CreateTable(tmpTable)
TxCreateTable(s, f) ==
    IF TxOpen(s) /\ "CreateTable" \notin f
    THEN Ok(Log([s EXCEPT !.db.tmp.exists = TRUE], "CreateTable", "tx", TRUE))
    ELSE Err(Log(s, "CreateTable", "tx", FALSE), "CreateTable")

\* tx.LoadTable(tmpTable, source)
TxLoadTable(s, rows, f) ==
    IF TxOpen(s) /\ "LoadTable" \notin f
    THEN Ok(Log([s EXCEPT !.db.tmp.rows = @ \o rows,
                          !.db.loaded = Append(@, rows)],
                "LoadTable", "tx", TRUE))
    ELSE Err(Log(s, "LoadTable", "tx", FALSE), "LoadTable")

\* TableHelper.EnsureTableWithoutCaching(tx, tmpTable) of the insert path
TxEnsureTmp(s, f) ==
    IF TxOpen(s) /\ "EnsureTmp" \notin f
    THEN Ok(Log([s EXCEPT !.db.tmp.exists = TRUE], "EnsureTmp", "tx", TRUE))
    ELSE Err(Log(s, "EnsureTmp", "tx", FALSE), "failed to ensure table")

\* tx.Insert(tmpTable, merge, object)
TxInsert(s, object, f) ==
    IF TxOpen(s) /\ "Insert" \notin f
    THEN Ok(Log([s EXCEPT !.db.tmp.rows =
                    IF s.ps.merge THEN Upsert(@, object, s.ps.pkColumns)
                    ELSE Append(@, object)],
                "Insert", "tx", TRUE))
    ELSE Err(Log(s, "Insert", "tx", FALSE), "Insert")

\* tx.CopyTables(dstTable, tmpTable, merge)
TxCopyTables(s, f) ==
    IF TxOpen(s) /\ "CopyTables" \notin f
    THEN Ok(Log([s EXCEPT !.db.txCopy =
                    Append(@, [rows |-> s.db.tmp.rows, merge |-> s.ps.merge])],
                "CopyTables", "tx", TRUE))
    ELSE Err(Log(s, "CopyTables", "tx", FALSE), "CopyTables")

\* TableHelper.EnsureTableWithCaching(dstTable): created if absent, columns
\* added, never dropped; the stream keeps the table it returns
EnsureTableWithCaching(s, f) ==
    IF "EnsureTable" \in f
    THEN Err(Log(s, "EnsureTable", "sqlAdapter", FALSE),
             "failed to ensure destination table")
    ELSE LET cols == s.db.dst.Columns \cup s.ps.dstTable.Columns IN
         Ok(Log([s EXCEPT !.db.dst.exists = TRUE,
                          !.db.dst.Columns = cols,
                          !.db.ensured = Append(@, s.ps.dstTable.Columns),
                          !.ps.dstTable = TableOf(cols)],
                "EnsureTable", "sqlAdapter", TRUE))

\* a Delete issued through the tx: nothing reaches the destination before
\* the Commit
DeletePartitionInTx(s, f) ==
    IF "Delete" \in f THEN Err(Log(s, "Delete", "tx", FALSE), "Delete")
    ELSE Ok(Log(s, "Delete", "tx", TRUE))

\* sqlAdapter.Delete(tableName, ByPartitionId(partitionId)), auto-commit
DeletePartition(s, f) ==
    IF "Delete" \in f THEN Err(Log(s, "Delete", "sqlAdapter", FALSE), "Delete")
    ELSE Ok(Log([s EXCEPT !.db.dst.rows =
                    SelectSeq(@, LAMBDA r : r[PartitonIdKeyword] # s.ps.partitionId)],
                "Delete", "sqlAdapter", TRUE))

\* s3.Upload(s3FileName, rFile): a failed upload may leave a part of the
\* object in the bucket
S3Upload(s, f) ==
    IF "S3Upload" \in f
    THEN Log([s EXCEPT !.db.staged =
                 IF "S3Partial" \in f THEN @ \cup {"staging"} ELSE @],
             "Upload", "s3", FALSE)
    ELSE Log([s EXCEPT !.db.staged = @ \cup {"staging"}], "Upload", "s3", TRUE)

\* s3.DeleteObject(s3FileName); its error is looked at by no caller
S3DeleteObject(s, f) ==
    IF "DeleteObject" \in f THEN Log(s, "DeleteObject", "s3", FALSE)
    ELSE Log([s EXCEPT !.db.staged = @ \ {"staging"}], "DeleteObject", "s3", TRUE)

\* ------------------------------------------------- transactional SQL stream

\* AbstractSQLStream.init: sets up the database, marks the stream inited
SQLinit(s, f) ==
    IF "BaseInit" \in f THEN Err(s, "BaseInit")
    ELSE Ok([s EXCEPT !.ps.inited = TRUE])

\* AbstractTransactionalSQLStream.init
TXinit(s, f) ==
    IF s.ps.inited THEN Ok(s)
    ELSE
    LET mk == s.ps.localBatchFile /\ s.ps.batchFile = "nil"
        s0 == IF s.ps.s3Option THEN [s EXCEPT !.ps.s3 = "set"] ELSE s
        s1 == IF mk THEN [s0 EXCEPT !.ps.marshaller = "set"] ELSE s0
        s2 == IF mk THEN [s1 EXCEPT !.ps.targetMarshaller = "set"] ELSE s1
        s3 == IF mk THEN [s2 EXCEPT !.ps.batchFile = "open",
                                    !.db.created = @ + 1,
                                    !.db.files = @ \cup {"batch"},
                                    !.db.handles = @ \cup {"batch"}]
              ELSE s2
    IN
    IF s.ps.s3Option /\ "NewS3" \in f THEN Err(s, "failed to setup s3 client")
    ELSE IF mk /\ "NewMarshaller" \in f THEN Err(s1, "NewMarshaller")
    ELSE IF mk /\ "CreateTemp" \in f THEN Err(s2, "CreateTemp")
    ELSE LET b == SQLinit(s3, f) IN
         IF b.err # "nil" THEN b
         ELSE IF b.s.ps.tx = "nil" THEN OpenTx(b.s, f) ELSE b

\* AbstractSQLStream.preprocess: a stream that is not Active, or that
\* already recorded an error, takes no further object; otherwise the
\* object's table is derived from its columns
SQLpreprocess(s, object, f) ==
    IF s.ps.state.Status # "Active"
    THEN [table |-> NilTable, obj |-> object, err |-> "stream is not active"]
    ELSE IF s.ps.state.LastError # "nil"
    THEN [table |-> NilTable, obj |-> object, err |-> s.ps.state.LastError]
    ELSE IF "preprocess" \in f
    THEN [table |-> NilTable, obj |-> object, err |-> "preprocess"]
    ELSE [table |-> TableOf(DOMAIN object), obj |-> object, err |-> "nil"]

\* AbstractSQLStream.postConsume
SQLpostConsume(s, err) ==
    LET s1 == IF err # "nil"
              THEN SetError([s EXCEPT !.ps.state.ErrorRowIndex =
                                          s.ps.state.ProcessedRows], err)
              ELSE [s EXCEPT !.ps.state.SuccessfulRows = @ + 1]
    IN [s1 EXCEPT !.ps.state.ProcessedRows = @ + 1]

\* AbstractSQLStream.postComplete
SQLpostComplete(s, err) ==
    IF err # "nil"
    THEN Err([SetError(s, err) EXCEPT !.ps.state.Status = "Failed"], err)
    ELSE Ok([s EXCEPT !.ps.state.Status = "Completed"])

\* SQLAdapter.ColumnName: the column names used here are already in the
\* form the adapter gives them
ColumnName(raw) == raw

PKSeparator == <<"_", "#", "#", "#", "_">>

RECURSIVE Join(_, _)
Join(parts, sep) ==
    IF parts = <<>> THEN <<>>
    ELSE IF Len(parts) = 1 THEN parts[1]
    ELSE parts[1] \o sep \o Join(Tail(parts), sep)

\* AbstractTransactionalSQLStream.getPKValue
TXgetPKValue(p, object) ==
    LET l == Len(p.pkColumns) IN
    IF l = 0 THEN [pk |-> <<>>, err |-> "primary key is not set"]
    ELSE IF l = 1
    THEN [pk |-> Sprint(object, ColumnName(p.pkColumns[1])), err |-> "nil"]
    ELSE [pk |-> Join([i \in 1..l |-> Sprint(object, ColumnName(p.pkColumns[i]))],
                      PKSeparator),
          err |-> "nil"]

\* utils.MapPutAll(destination, source): every entry of source is put into
\* destination, which is returned
MapPutAll(destination, source) == destination \cup source

\* tmpTableFunc: a temporary table with the columns of the first object;
\* the ReplacePartition one reads the destination schema through the tx
\* when there is no batch file
tmpTableFunc(s, tableForObject) ==
    LET lookup == s.ps.kind = "rp" /\ s.ps.batchFile = "nil"
        s1 == IF lookup THEN Log(s, "GetTableSchema", "tx", TxOpen(s)) ELSE s
        \* MapPutAll writes the columns of the existing table into the map
        \* tableForObject.Columns, which the new tmp table shares
        cols == IF lookup /\ TxOpen(s) /\ s.db.dst.exists
                THEN MapPutAll(tableForObject.Columns, s.db.dst.Columns)
                ELSE tableForObject.Columns
    IN [s1 EXCEPT !.ps.tmpTable = TableOf(cols)]

\* adjustTableColumnTypes: the tmp table takes the columns of the object's
\* table that it lacks
adjustTableColumnTypes(s, targetTable) ==
    [s EXCEPT !.ps.tmpTable.Columns = @ \cup targetTable.Columns]

\* AbstractTransactionalSQLStream.adjustTables
adjustTables(s, targetTable) ==
    LET s1 == IF s.ps.tmpTable.nil
              THEN tmpTableFunc([s EXCEPT !.ps.dstTable = targetTable], targetTable)
              ELSE adjustTableColumnTypes(s, targetTable)
    IN [s1 EXCEPT !.ps.dstTable.Columns = s1.ps.tmpTable.Columns]

\* AbstractTransactionalSQLStream.writeToBatchFile
TXwriteToBatchFile(s, targetTable, object, f) ==
    LET s1 == adjustTables(s, targetTable) IN
    IF "InitSchema" \in f THEN Err(s1, "InitSchema")
    ELSE IF s1.ps.merge
    THEN LET r == TXgetPKValue(s1.ps, object) IN
         IF r.err # "nil" THEN Err(s1, r.err)
         ELSE MarshalLine([s1 EXCEPT !.ps = RecordPK(@, r.pk)], object, f)
    ELSE MarshalLine(s1, object, f)

\* insert that ensures the destination table in place of the tmp table
TXinsertEnsureDst(s, targetTable, object, f) ==
    LET s1 == adjustTables(s, targetTable)
        e == EnsureTableWithCaching(s1, f)
    IN IF e.err # "nil" THEN e ELSE TxInsert(e.s, object, f)

\* AbstractTransactionalSQLStream.insert
TXinsert(s, targetTable, object, f) ==
    LET s1 == adjustTables(s, targetTable)
        e == TxEnsureTmp(s1, f)
    IN IF e.err # "nil" THEN e ELSE TxInsert(e.s, object, f)

\* the steps of Consume after init, shared by both Consume methods
TXdispatch(s, object, f) ==
    LET pre == SQLpreprocess(s, object, f) IN
    IF pre.err # "nil" THEN Err(s, pre.err)
    ELSE IF s.ps.batchFile # "nil"
    THEN TXwriteToBatchFile(s, pre.table, pre.obj, f)
    ELSE TXinsert(s, pre.table, pre.obj, f)

\* AbstractTransactionalSQLStream.Consume, with the deferred postConsume
TXConsume(s, object, f) ==
    LET i == TXinit(s, f) IN
    IF i.err # "nil" THEN Err(SQLpostConsume(i.s, i.err), i.err)
    ELSE LET w == TXdispatch(i.s, object, f) IN
         [s |-> SQLpostConsume(w.s, w.err), err |-> w.err, panic |-> FALSE]

\* the object as the caller passed it, unstamped
StampKeep(p, object) == object

\* the object with __partition_id set to the stream's partition id
Stamp(p, object) == (PartitonIdKeyword :> p.partitionId) @@ object

\* ReplacePartitionStream.Consume, with the deferred postConsume
RPConsume(s, object, f) ==
    LET i == TXinit(s, f) IN
    IF i.err # "nil" THEN Err(SQLpostConsume(i.s, i.err), i.err)
    ELSE LET w == TXdispatch(i.s, Stamp(i.s.ps, object), f) IN
         [s |-> SQLpostConsume(w.s, w.err), err |-> w.err, panic |-> FALSE]

\* Abort without the test of the status
TXAbortAnyStatus(s, f) ==
    LET s1 == IF s.ps.tx # "nil"
              THEN TxRollback(IF ~s.ps.tmpTable.nil THEN TxDrop(s, f) ELSE s)
              ELSE s
        s2 == IF s1.ps.batchFile # "nil" THEN CloseRemove(s1, "batch") ELSE s1
    IN Ok([s2 EXCEPT !.ps.state.Status = "Aborted"])

\* Abort that drops the tmp table but leaves the tx open
TXAbortNoRollback(s, f) ==
    IF s.ps.state.Status # "Active" THEN Err(s, "stream is not active")
    ELSE
    LET s1 == IF s.ps.tx # "nil" /\ ~s.ps.tmpTable.nil THEN TxDrop(s, f) ELSE s
        s2 == IF s1.ps.batchFile # "nil" THEN CloseRemove(s1, "batch") ELSE s1
    IN Ok([s2 EXCEPT !.ps.state.Status = "Aborted"])

\* Abort that closes the batch file but leaves it on disk
TXAbortKeepFile(s, f) ==
    IF s.ps.state.Status # "Active" THEN Err(s, "stream is not active")
    ELSE
    LET s1 == IF s.ps.tx # "nil"
              THEN TxRollback(IF ~s.ps.tmpTable.nil THEN TxDrop(s, f) ELSE s)
              ELSE s
        s2 == IF s1.ps.batchFile # "nil"
              THEN [s1 EXCEPT !.db.handles = @ \ {"batch"}] ELSE s1
    IN Ok([s2 EXCEPT !.ps.state.Status = "Aborted"])

\* AbstractTransactionalSQLStream.Abort
TXAbort(s, f) ==
    IF s.ps.state.Status # "Active" THEN Err(s, "stream is not active")
    ELSE
    LET s1 == IF s.ps.tx # "nil"
              THEN TxRollback(IF ~s.ps.tmpTable.nil THEN TxDrop(s, f) ELSE s)
              ELSE s
        s2 == IF s1.ps.batchFile # "nil" THEN CloseRemove(s1, "batch") ELSE s1
    IN Ok([s2 EXCEPT !.ps.state.Status = "Aborted"])

\* AbstractTransactionalSQLStream.flushBatchFile
TXflushBatchFile(s, f) ==
    LET c == TxCreateTable(s, f) IN
    IF c.err # "nil" THEN Err(c.s, "failed to create table")
    ELSE IF c.s.ps.eventsInBatch = 0 THEN Ok(FlushDefer(c.s))
    ELSE IF "Flush" \in f THEN Err(FlushDefer(c.s), "Flush")
    ELSE IF "Sync" \in f THEN Err(FlushDefer(c.s), "Sync")
    ELSE
    LET needToConvert == s.ps.format # "ndjson"
        rewrite == s.ps.batchFileSkipLines # {} \/ needToConvert
        kept == Retained(s.db.fileLines, s.ps.batchFileSkipLines)
        sw == [c.s EXCEPT !.db.files = @ \cup {"working"},
                          !.db.handles = @ \cup {"working"}]
        so == [sw EXCEPT !.db.handles = @ \cup {"reread"}]
        local(x, rows, cleanup(_)) ==
            LET l == TxLoadTable(x, rows, f) IN
            [s |-> cleanup(l.s), err |-> l.err, panic |-> FALSE]
        \* through S3: the working file is opened again, uploaded, loaded
        \* from the bucket; DeleteObject is deferred once Upload returned
        \* without error
        viaS3(x, rows, cleanup(_)) ==
            IF "OpenS3" \in f THEN Err(cleanup(x), "failed to open tmp file")
            ELSE LET xo == [x EXCEPT !.db.handles = @ \cup {"s3read"}] IN
            IF "S3Upload" \in f
            THEN Err(cleanup(S3Upload(xo, f)), "failed to upload file to s3")
            ELSE LET l == TxLoadTable(S3Upload(xo, f), rows, f) IN
                 [s |-> cleanup(S3DeleteObject(l.s, f)), err |-> l.err,
                  panic |-> FALSE]
        load(x, rows, cleanup(_)) ==
            IF x.ps.s3 # "nil" THEN viaS3(x, rows, cleanup)
            ELSE local(x, rows, cleanup)
    IN
    IF ~rewrite THEN load(c.s, s.db.fileLines, FlushDefer)
    ELSE IF "CreateTemp2" \in f THEN Err(FlushDefer(c.s), "CreateTemp2")
    ELSE IF needToConvert /\ "InitHeader" \in f THEN Err(FlushDefer2(sw), "InitHeader")
    ELSE IF "Open" \in f THEN Err(FlushDefer2(sw), "Open")
    ELSE IF needToConvert /\ "Decode" \in f THEN Err(FlushDefer2(so), "Decode")
    ELSE IF needToConvert /\ "Marshal2" \in f THEN Err(FlushDefer2(so), "Marshal2")
    ELSE IF ~needToConvert /\ "Write" \in f THEN Err(FlushDefer2(so), "Write")
    ELSE IF "Scan" \in f THEN Err(FlushDefer2(so), "Scan")
    ELSE load(so, kept, FlushDefer2)

\* postComplete that hands back the error of a failed Drop in place of the
\* error it was called with
TXpostCompleteDropError(s, err, f) ==
    LET s1 == IF s.ps.batchFile # "nil" THEN CloseRemove(s, "batch") ELSE s
        drop(x) == IF ~x.ps.tmpTable.nil THEN TxDrop(x, f) ELSE x
        dropFailed(x) == ~x.ps.tmpTable.nil /\ ~(TxOpen(x) /\ "Drop" \notin f)
    IN
    IF err # "nil"
    THEN LET s2 == [s1 EXCEPT !.ps.state.SuccessfulRows = 0]
             s3 == IF s2.ps.tx # "nil" THEN TxRollback(drop(s2)) ELSE s2
         IN SQLpostComplete(s3, IF s2.ps.tx # "nil" /\ dropFailed(s2)
                                THEN "Drop" ELSE err)
    ELSE IF s1.ps.tx # "nil"
    THEN LET c == TxCommit(drop(s1), f) IN SQLpostComplete(c.s, c.err)
    ELSE SQLpostComplete(s1, "nil")

\* AbstractTransactionalSQLStream.postComplete
TXpostComplete(s, err, f) ==
    LET s1 == IF s.ps.batchFile # "nil" THEN CloseRemove(s, "batch") ELSE s
        drop(x) == IF ~x.ps.tmpTable.nil THEN TxDrop(x, f) ELSE x
    IN
    IF err # "nil"
    THEN LET s2 == [s1 EXCEPT !.ps.state.SuccessfulRows = 0]
             s3 == IF s2.ps.tx # "nil" THEN TxRollback(drop(s2)) ELSE s2
         IN SQLpostComplete(s3, err)
    ELSE IF s1.ps.tx # "nil"
    THEN LET c == TxCommit(drop(s1), f) IN SQLpostComplete(c.s, c.err)
    ELSE SQLpostComplete(s1, "nil")

\* ------------------------------------------------- ReplacePartition stream

\* clearPartition that looks the table up and deletes nothing
clearPartitionSchemaOnly(s, f) ==
    IF "GetTableSchema" \in f
    THEN Err(Log(s, "GetTableSchema", "sqlAdapter", FALSE),
             "failed to check existence of table")
    ELSE Ok(Log(s, "GetTableSchema", "sqlAdapter", TRUE))

\* ReplacePartitionStream.clearPartition, called with the sqlAdapter
clearPartition(s, f) ==
    IF "GetTableSchema" \in f
    THEN Err(Log(s, "GetTableSchema", "sqlAdapter", FALSE),
             "failed to check existence of table")
    ELSE LET s1 == Log(s, "GetTableSchema", "sqlAdapter", TRUE) IN
         IF ~s.db.dst.exists THEN Ok(s1)
         ELSE IF PartitonIdKeyword \notin s.db.dst.Columns
         THEN Err(s1, "not managed by ReplacePartitionStream")
         ELSE LET d == DeletePartition(s1, f) IN
              IF d.err # "nil"
              THEN Err(d.s, "failed to delete data for partitionId")
              ELSE d

\* the body of ReplacePartitionStream.Complete, without its deferred part
RPCompleteBody(s, f) ==
    IF s.ps.state.LastError # "nil" THEN Err(s, s.ps.state.LastError)
    ELSE LET c == clearPartition(s, f) IN
    IF ~(c.err = "nil" /\ s.ps.state.SuccessfulRows > 0) THEN c
    ELSE LET fl == IF c.s.ps.batchFile # "nil" THEN TXflushBatchFile(c.s, f)
                   ELSE Ok(c.s) IN
    IF fl.err # "nil" THEN fl
    ELSE LET e == EnsureTableWithCaching(
                      [fl.s EXCEPT !.ps.dstTable.Columns = fl.s.ps.tmpTable.Columns], f) IN
    IF e.err # "nil" THEN e
    ELSE TxCopyTables(e.s, f)

\* Complete without the test of the status
RPCompleteAnyStatus(s, f) ==
    LET b == RPCompleteBody(s, f)
        z == [b.s EXCEPT !.ps.state.SuccessfulRows = 0]
    IN IF b.err = "nil" THEN TXpostComplete(b.s, b.err, f)
       ELSE IF z.ps.tx # "nil" THEN TXpostComplete(TxRollback(z), b.err, f)
       ELSE IF "RollbackNil" \in f THEN Panic(z)
       ELSE TXpostComplete(z, b.err, f)

\* ReplacePartitionStream.Complete
\* The deferred part calls ps.tx.Rollback() with no test of ps.tx. With no
\* tx opened the receiver is a nil *TxSQLAdapter: the call either does
\* nothing or panics on the nil receiver ("RollbackNil" in f), and a panic
\* leaves the deferred function before postComplete.
RPComplete(s, f) ==
    IF s.ps.state.Status # "Active" THEN Err(s, "stream is not active")
    ELSE LET b == RPCompleteBody(s, f)
             z == [b.s EXCEPT !.ps.state.SuccessfulRows = 0]
         IN IF b.err = "nil" THEN TXpostComplete(b.s, b.err, f)
            ELSE IF z.ps.tx # "nil" THEN TXpostComplete(TxRollback(z), b.err, f)
            ELSE IF "RollbackNil" \in f THEN Panic(z)
            ELSE TXpostComplete(z, b.err, f)

\* Complete of the Batch mode (append or upsert through the tmp table)
BatchComplete(s, f) ==
    IF s.ps.state.Status # "Active" THEN Err(s, "stream is not active")
    ELSE IF s.ps.state.LastError # "nil"
    THEN TXpostComplete(s, s.ps.state.LastError, f)
    ELSE IF s.ps.state.SuccessfulRows = 0 THEN TXpostComplete(s, "nil", f)
    ELSE LET fl == IF s.ps.batchFile # "nil" THEN TXflushBatchFile(s, f)
                   ELSE Ok(s) IN
    IF fl.err # "nil" THEN TXpostComplete(fl.s, fl.err, f)
    ELSE LET e == EnsureTableWithCaching(fl.s, f) IN
    IF e.err # "nil" THEN TXpostComplete(e.s, e.err, f)
    ELSE LET c == TxCopyTables(e.s, f) IN TXpostComplete(c.s, c.err, f)

\* ------------------------------------------------------------------ actions

\* What may go wrong inside one call: the set of the calls that fail in it.
\* Only calls the handler can reach are offered (a failure of a call that is
\* never made changes nothing).
ConsumeFailPoints(p) ==
    IF p.kind = "fs"
    THEN (IF p.batchFile = "nil" THEN {"CreateTemp", "NewMarshaller"} ELSE {})
         \cup (IF p.format = "csv" THEN {"Flatten"} ELSE {}) \cup {"Marshal"}
    ELSE (IF p.inited THEN {}
          ELSE (IF p.localBatchFile /\ p.batchFile = "nil"
                THEN {"CreateTemp", "NewMarshaller"} ELSE {})
               \cup (IF p.s3Option THEN {"NewS3"} ELSE {})
               \cup {"BaseInit", "OpenTx"})
         \cup {"preprocess"}
         \cup (IF p.localBatchFile THEN {"InitSchema", "Marshal"}
               ELSE {"EnsureTmp", "Insert"})
ConsumeFailures(p) == {{}} \cup {{x} : x \in ConsumeFailPoints(p)}

FlushFailPoints(p) ==
    {"Flush", "Sync", "CreateTemp2", "Open", "Scan"}
        \cup (IF p.format = "csv" THEN {"InitHeader", "Decode", "Marshal2"}
              ELSE {"Write"})
CompleteFailPoints(p) ==
    IF p.kind = "fs" THEN FlushFailPoints(p) \cup {"Seek", "Upload"}
    ELSE (IF p.localBatchFile THEN FlushFailPoints(p) \cup {"CreateTable", "LoadTable"}
          ELSE {})
         \cup (IF p.s3 # "nil" THEN {"OpenS3", "S3Upload", "DeleteObject"} ELSE {})
         \cup (IF p.kind = "rp" THEN {"GetTableSchema", "Delete"} ELSE {})
         \cup {"EnsureTable", "CopyTables", "Drop", "Commit"}
CompleteFailures(p) ==
    IF p.state.Status # "Active" THEN {{}}
    ELSE {{}} \cup {{x} : x \in CompleteFailPoints(p)}
              \cup (IF p.kind = "fs" THEN {}
                    ELSE {{x, "Drop"} : x \in CompleteFailPoints(p)})
              \cup (IF p.s3 # "nil"
                    THEN {{"S3Upload", "S3Partial"}, {"LoadTable", "DeleteObject"}}
                    ELSE {})
              \cup (IF p.kind = "rp" /\ p.tx = "nil"
                    THEN {{"RollbackNil"}, {"GetTableSchema", "RollbackNil"},
                          {"Delete", "RollbackNil"}}
                    ELSE {})
AbortFailures(p) ==
    IF p.state.Status # "Active" \/ p.kind = "fs" THEN {{}} ELSE {{}, {"Drop"}}

\* only the file-storage stream ranges over a set of key columns
ConsumeOrders(p) ==
    IF p.kind = "fs" THEN Orders(p.pkColumns) ELSE {[i \in 1..Len(p.pkColumns) |-> p.pkColumns[i]]}

Returned(op, r) == [op |-> op, err |-> r.err]

\* the stream and its surroundings after a handler, and what it returned
Step(op, r) ==
    /\ ps' = r.s.ps
    /\ db' = r.s.db
    /\ ret' = Returned(op, r)

\* ... a Consume being counted, and the event time of its object noted
\* when the file-storage stream got past init (init leaves inited set)
ConsumeStep(r, eventTime) ==
    /\ Step("Consume", r)
    /\ hist' = [hist EXCEPT
                   !.consumes = @ + 1,
                   !.eventTimes = IF r.s.ps.kind = "fs" /\ r.s.ps.inited
                                  THEN @ \cup {eventTime} ELSE @]

\* ... a panic of Complete being counted
CompleteStep(r) ==
    /\ Step("Complete", r)
    /\ hist' = [hist EXCEPT !.panics = IF r.panic THEN @ + 1 ELSE @]

\* the caller calls Consume(object), the object's event time being one of
\* times
ConsumeAt(times) ==
    /\ ps.kind \in Kinds
    /\ hist.consumes < MaxConsume
    /\ \E object \in Objects, f \in ConsumeFailures(ps), ord \in ConsumeOrders(ps),
          eventTime \in times :
        ConsumeStep(
             CASE ps.kind = "fs" -> FSConsume(St(ps, db), object, f, ord, eventTime)
               [] ps.kind = "tx" -> TXConsume(St(ps, db), object, f)
               [] ps.kind = "rp" -> RPConsume(St(ps, db), object, f),
             eventTime)

\* the caller calls Consume(object); no timestamp column is configured, the
\* event time is the current time
Consume == ConsumeAt({Now})

\* the caller calls Complete
Complete ==
    /\ ps.kind \in Kinds
    /\ hist.panics < MaxPanics
    /\ \E f \in CompleteFailures(ps) :
        CompleteStep(CASE ps.kind = "fs" -> FSComplete(St(ps, db), f)
                       [] ps.kind = "tx" -> BatchComplete(St(ps, db), f)
                       [] ps.kind = "rp" -> RPComplete(St(ps, db), f))

\* the caller calls Abort
Abort ==
    /\ ps.kind \in Kinds
    /\ \E f \in AbortFailures(ps) :
        Step("Abort", IF ps.kind = "fs" THEN FSAbort(St(ps, db))
                      ELSE TXAbort(St(ps, db), f))
    /\ UNCHANGED hist

Next == Consume \/ Complete \/ Abort

Spec == Init /\ [][Next]_vars

\* a file-storage stream with a timestamp column: the event time of an
\* object is whatever time its column holds
InitTimed == Init /\ ps.kind = "fs"
ConsumeTimed == ConsumeAt(EventTimes)
NextTimed == ConsumeTimed \/ Complete \/ Abort
SpecTimed == InitTimed /\ [][NextTimed]_vars

\* getPKValue on its own: a merge stream with one or two key columns is
\* asked for the key of one object after another
MaxPKCalls == 2
PKValues == {IntV(<<"1">>), StrV(<<"1">>), StrV(<<"2">>), StrV(<<"1", "_", "2">>)}
PKObjects == UNION {[cols -> PKValues] : cols \in SUBSET {"id", "k"}}

InitPK ==
    \E kind \in {"fs", "tx"}, pkColumns \in {<<"id">>, <<"id", "k">>} :
        /\ ps = NewStream(kind, TRUE, pkColumns, TRUE, "ndjson", FALSE)
        /\ db = NewDb(DstAbsent)
        /\ ret = [op |-> "new", err |-> "nil"]
        /\ hist = [calls |-> <<>>]

\* what getPKValue returned for an object
PKCall(object, r) == [object |-> object, pk |-> r.pk, err |-> r.err]

GetPKValue ==
    /\ Len(hist.calls) < MaxPKCalls
    /\ \E object \in PKObjects, ord \in ConsumeOrders(ps) :
        \E c \in {PKCall(object, IF ps.kind = "fs"
                                  THEN FSgetPKValue(ps, object, ord)
                                  ELSE TXgetPKValue(ps, object))} :
            /\ ret' = [op |-> "getPKValue", err |-> c.err]
            /\ hist' = [hist EXCEPT !.calls = Append(@, c)]
    /\ UNCHANGED <<ps, db>>

NextPK == GetPKValue
SpecPK == InitPK /\ [][NextPK]_vars

\* ------------------------------------------------- StreamsRepositoryData
\* One goroutine loads the stream configurations again and again (Init),
\* another reads them (GetData and the fields of what it returns). Here
\* ps is the StreamsRepositoryData, db the heap and the loader's locals,
\* ret the reader, hist what was loaded so far.

MaxLoads == 2
MaxReads == 2

\* elements of the JSON array: stream configurations, or one that does
\* not decode
SwdA == [Id |-> "a", Domains |-> <<"d1">>,
         PublicKeys |-> <<[Id |-> "k1", Hash |-> "h1"]>>, PrivateKeys |-> <<>>]
SwdB == [Id |-> "b", Domains |-> <<"d1", "d2">>,
         PublicKeys |-> <<>>, PrivateKeys |-> <<[Id |-> "k1", Hash |-> "h2"]>>]
BadElement == [Id |-> "bad"]

\* what the reader may be handed: open says whether the first token reads,
\* close whether the closing bracket does
Doc(open, elems, close) == [open |-> open, elems |-> elems, close |-> close]
Documents ==
    {Doc(TRUE, <<SwdA, SwdB>>, TRUE), Doc(TRUE, <<SwdB>>, TRUE),
     Doc(TRUE, <<>>, TRUE), Doc(FALSE, <<>>, FALSE),
     Doc(TRUE, <<SwdA, BadElement>>, TRUE), Doc(TRUE, <<SwdA>>, FALSE)}
Tags == {"nil", "time"}

\* m[k] = v, for a Go map held as a function
MapPut(m, k, v) == (k :> v) @@ m

\* streamsByDomains after the loop over swd.Stream.Domains
RECURSIVE putDomains(_, _, _)
putDomains(byDomains, domains, swd) ==
    IF domains = <<>> THEN byDomains
    ELSE LET d == Head(domains)
             domainStreams == IF d \in DOMAIN byDomains THEN byDomains[d] ELSE <<>>
         IN putDomains(MapPut(byDomains, d, Append(domainStreams, swd)),
                       Tail(domains), swd)

\* apiKeyBindings after a loop over PublicKeys or PrivateKeys
RECURSIVE putKeys(_, _, _, _)
putKeys(bindings, keys, keyType, streamId) ==
    IF keys = <<>> THEN bindings
    ELSE putKeys(MapPut(bindings, Head(keys).Id,
                        [Hash |-> Head(keys).Hash, KeyType |-> keyType,
                         StreamId |-> streamId]),
                 Tail(keys), keyType, streamId)

\* the locals of Init before the loop
NewLoader(doc, tag) ==
    [pc |-> "loop", doc |-> doc, tag |-> tag, i |-> 1,
     streams |-> <<>>, apiKeyBindings |-> <<>>, streamsByIds |-> <<>>,
     streamsByDomains |-> <<>>]
IdleLoader == [NewLoader(Doc(FALSE, <<>>, FALSE), "nil") EXCEPT !.pc = "idle"]

\* one turn of the loop of Init with the element swd decoded
loopBody(l, swd) ==
    [l EXCEPT
        !.i = @ + 1,
        !.streams = Append(@, swd),
        !.streamsByIds = MapPut(@, swd.Id, swd),
        !.streamsByDomains = putDomains(@, swd.Domains, swd),
        !.apiKeyBindings =
            putKeys(putKeys(@, swd.PublicKeys, "browser", swd.Id),
                    swd.PrivateKeys, "s2s", swd.Id)]

\* the Streams value Init builds after the closing bracket; load says
\* which call of Init built it
NewStreamsData(l, load) ==
    [load |-> load, streams |-> l.streams, apiKeyBindings |-> l.apiKeyBindings,
     streamsByIds |-> l.streamsByIds, streamsByDomains |-> l.streamsByDomains,
     lastModified |-> IF l.tag # "nil" THEN load ELSE ZeroTime]

\* a store that writes the new value over the Streams the pointer already
\* leads to
StoreInPlace(repo, heap, data) ==
    IF repo.data = 0
    THEN [repo |-> [repo EXCEPT !.data = Len(heap) + 1], heap |-> Append(heap, data)]
    ELSE [repo |-> repo, heap |-> [heap EXCEPT ![repo.data] = data]]

\* s.data.Store(&data): data is a new object, the pointer is swapped
StoreData(repo, heap, data) ==
    [repo |-> [repo EXCEPT !.data = Len(heap) + 1], heap |-> Append(heap, data)]

InitRepo ==
    /\ ps = [kind |-> "repo", data |-> 0]
    /\ db = [heap |-> <<>>, loader |-> IdleLoader]
    /\ ret = [op |-> "GetData", err |-> "nil", pc |-> "idle", p |-> 0,
              view |-> <<>>, reads |-> 0]
    /\ hist = [loads |-> 0, stored |-> {}, dataAtStart |-> 0, heapAtStart |-> <<>>,
               result |-> "none"]

\* Init returns err: the loader is idle again
InitReturns(err) ==
    /\ db' = [db EXCEPT !.loader = IdleLoader]
    /\ hist' = [hist EXCEPT !.result = err]
    /\ UNCHANGED <<ps, ret>>

\* StreamsRepositoryData.Init is called and reads the opening bracket
InitOpen ==
    /\ db.loader.pc = "idle" /\ hist.loads < MaxLoads
    /\ \E doc \in Documents, tag \in Tags :
        /\ db' = [db EXCEPT !.loader =
                     IF doc.open THEN NewLoader(doc, tag) ELSE IdleLoader]
        /\ hist' = [hist EXCEPT
                       !.loads = @ + 1,
                       !.dataAtStart = ps.data,
                       !.heapAtStart = db.heap,
                       !.result = IF doc.open THEN "running"
                                  ELSE "error reading open bracket"]
    /\ UNCHANGED <<ps, ret>>

\* one turn of the loop: dec.More(), dec.Decode(&swd), the maps
InitLoop ==
    /\ db.loader.pc = "loop"
    /\ LET l == db.loader IN
       IF l.i > Len(l.doc.elems)
       THEN /\ db' = [db EXCEPT !.loader.pc = "close"]
            /\ UNCHANGED <<ps, ret, hist>>
       ELSE IF l.doc.elems[l.i] = BadElement
       THEN InitReturns("Error unmarshalling stream config")
       ELSE /\ db' = [db EXCEPT !.loader = loopBody(l, l.doc.elems[l.i])]
            /\ UNCHANGED <<ps, ret, hist>>

\* the closing bracket, then the new Streams is stored
InitStore ==
    /\ db.loader.pc = "close"
    /\ IF ~db.loader.doc.close
       THEN InitReturns("error reading closing bracket")
       ELSE \E st \in {StoreData(ps, db.heap, NewStreamsData(db.loader, hist.loads))} :
            /\ ps' = st.repo
            /\ db' = [heap |-> st.heap, loader |-> IdleLoader]
            /\ hist' = [hist EXCEPT
                           !.result = "nil",
                           !.stored = @ \cup {NewStreamsData(db.loader, hist.loads)}]
            /\ UNCHANGED ret

\* GetData: s.data.Load()
GetData ==
    /\ ret.pc = "idle" /\ ret.reads < MaxReads
    /\ ret' = [ret EXCEPT !.pc = IF ps.data = 0 THEN "idle" ELSE "read",
                          !.p = ps.data, !.view = <<>>, !.reads = @ + 1]
    /\ UNCHANGED <<ps, db, hist>>

\* the fields of Streams, in the order the caller reads them
StreamsFields == <<"streams", "apiKeyBindings", "streamsByIds", "streamsByDomains">>

\* the caller of GetData reads the next field through the pointer it got
ReadField ==
    /\ ret.pc = "read"
    /\ LET field == StreamsFields[Len(ret.view) + 1]
           obj == db.heap[ret.p]
       IN ret' = [ret EXCEPT
                     !.view = Append(@, [load |-> obj.load, val |-> obj[field]]),
                     !.pc = IF Len(ret.view) + 1 = Len(StreamsFields)
                            THEN "idle" ELSE "read"]
    /\ UNCHANGED <<ps, db, hist>>

NextRepo == InitOpen \/ InitLoop \/ InitStore \/ GetData \/ ReadField
SpecRepo == InitRepo /\ [][NextRepo]_vars

\* ------------------------------------------------- ingress Manager
\* Goroutines call Manager.AddDomain on one ingress. Here ps is the
\* ingress and the secrets as the API server holds them, db the locals of
\* each caller, ret what the last call returned, hist the domains whose
\* call returned without error.

MaxAddCalls == 3
NumCallers == 2
Callers == 1..NumCallers
Domains == {"x.com", "y.com"}

IdleCaller == [pc |-> "idle", domain |-> "", ingressTLS |-> <<>>,
               domainAlreadyExists |-> FALSE]

InitIngress ==
    /\ ps = [kind |-> "ingress", tls |-> <<>>, secrets |-> {}]
    /\ db = [callers |-> [c \in Callers |-> IdleCaller]]
    /\ ret = [op |-> "new", err |-> "nil", status |-> "none"]
    /\ hist = [added |-> {}, calls |-> 0, overlap |-> FALSE]

\* a call is between its first and its last step
InFlight(c) == db.callers[c].pc # "idle"

\* AddDomain returns (status, err)
AddReturns(c, status, err) ==
    /\ db' = [db EXCEPT !.callers[c] = IdleCaller]
    /\ ret' = [op |-> "AddDomain", err |-> err, status |-> status]
    /\ hist' = [hist EXCEPT !.added = IF err = "nil" /\ status # "dns_error"
                                      THEN @ \cup {db.callers[c].domain} ELSE @]

\* the hosts of the TLS entries: t.Hosts[0] of each
TLSHosts(tls) == {tls[i] : i \in 1..Len(tls)}

\* the JSON patch AddDomain sends, applied by the API server: "add" at
\* /spec/tls sets the member, replacing a list that is there; "add" at
\* /spec/tls/- appends to the list
ApplyPatch(tls, seenEmpty, domain) ==
    IF seenEmpty THEN <<domain>> ELSE Append(tls, domain)

\* AddDomain is called: net.LookupIP and the test of the static ip
AddDomainLookup(c) ==
    /\ ~InFlight(c) /\ hist.calls < MaxAddCalls
    /\ \E domain \in Domains, dnsOk \in BOOLEAN :
        IF dnsOk
        THEN /\ db' = [db EXCEPT !.callers[c] =
                          [IdleCaller EXCEPT !.pc = "get", !.domain = domain]]
             /\ ret' = ret
             /\ hist' = [hist EXCEPT
                            !.calls = @ + 1,
                            !.overlap = @ \/ \E o \in Callers : InFlight(o)]
        ELSE /\ db' = db
             /\ ret' = [op |-> "AddDomain", err |-> "nil", status |-> "dns_error"]
             /\ hist' = [hist EXCEPT !.calls = @ + 1]
    /\ UNCHANGED ps

\* Ingresses(...).Get and the search for the domain in what it returned
AddDomainGet(c) ==
    /\ db.callers[c].pc = "get"
    /\ \E ok \in BOOLEAN :
        IF ok
        THEN /\ db' = [db EXCEPT
                          !.callers[c].pc = "patch",
                          !.callers[c].ingressTLS = ps.tls,
                          !.callers[c].domainAlreadyExists =
                              db.callers[c].domain \in TLSHosts(ps.tls)]
             /\ UNCHANGED <<ret, hist>>
        ELSE AddReturns(c, "error", "error getting ingress")
    /\ UNCHANGED ps

\* Ingresses(...).Patch unless the domain was found
AddDomainPatch(c) ==
    /\ db.callers[c].pc = "patch"
    /\ LET l == db.callers[c] IN
       IF l.domainAlreadyExists
       THEN /\ db' = [db EXCEPT !.callers[c].pc = "secret"]
            /\ UNCHANGED <<ps, ret, hist>>
       ELSE \E ok \in BOOLEAN :
            IF ok
            THEN /\ ps' = [ps EXCEPT !.tls =
                              ApplyPatch(@, Len(l.ingressTLS) = 0, l.domain)]
                 /\ db' = [db EXCEPT !.callers[c].pc = "secret"]
                 /\ UNCHANGED <<ret, hist>>
            ELSE /\ AddReturns(c, "error", "error patching ingress")
                 /\ UNCHANGED ps

\* the TLS secret is read and created when missing; CheckCertificate
AddDomainSecret(c) ==
    /\ db.callers[c].pc = "secret"
    /\ LET l == db.callers[c]
           secretAlreadyExists == l.domain \in ps.secrets
       IN \E ok \in BOOLEAN, certStatus \in {"error", "pending", "ok"} :
          IF ~ok
          THEN /\ AddReturns(c, "error", "error getting tls secret")
               /\ UNCHANGED ps
          ELSE /\ ps' = [ps EXCEPT !.secrets = @ \cup {l.domain}]
               /\ IF ~l.domainAlreadyExists \/ ~secretAlreadyExists
                  THEN AddReturns(c, "pending_ssl", "nil")
                  ELSE CASE certStatus = "error" ->
                                AddReturns(c, "error", "certificate expired")
                         [] certStatus = "pending" ->
                                AddReturns(c, "pending_ssl", "nil")
                         [] certStatus = "ok" -> AddReturns(c, "ok", "nil")

NextIngress ==
    \E c \in Callers :
        \/ AddDomainLookup(c)
        \/ AddDomainGet(c)
        \/ AddDomainPatch(c)
        \/ AddDomainSecret(c)
SpecIngress == InitIngress /\ [][NextIngress]_vars

\* ------------------------------------------------------------------ claims

Statuses == {"Active", "Completed", "Failed", "Aborted"}

\* the partition id of a row (rows of an unmanaged table have none)
PartOf(r) == IF PartitonIdKeyword \in DOMAIN r THEN r[PartitonIdKeyword] ELSE NullV
InPartition(rows, pid) == SelectSeq(rows, LAMBDA r : PartOf(r) = pid)
OffPartition(rows, pid) == SelectSeq(rows, LAMBDA r : PartOf(r) # pid)
Range(q) == {q[i] : i \in 1..Len(q)}

\* the adapter calls an operation added to the log
NewCalls == SubSeq(db'.calls, Len(db.calls) + 1, Len(db'.calls))
CallNames(cs) == {cs[i][1] : i \in 1..Len(cs)}
AllCallsOk == \A i \in 1..Len(db.calls) : db.calls[i][3]

\* C1: the status is always one of Active, Completed, Failed, Aborted, and
\* once it is not Active no operation (Consume, Complete, Abort) changes it.
C1_StatusMonotonic ==
    [][/\ ps'.state.Status \in Statuses
       /\ ps.state.Status # "Active" => ps'.state.Status = ps.state.Status]_vars

\* an operation ran on a stream that had already ended
C1_Witness ==
    /\ ps.state.Status \in {"Completed", "Failed", "Aborted"}
    /\ ret.err = "stream is not active"

\* C2 (as claimed): a ReplacePartition stream that ended Failed left the
\* destination with exactly the rows it had when the stream was created.
C2_FailedKeepsDestination ==
    (ps.kind = "rp" /\ ps.state.Status = "Failed") => db.dst.rows = hist.dst0.rows

C4_KeptLinesAreLastPerKey ==
    (/\ ps.merge /\ ps.batchFile = "open"
     /\ ps.state.Status = "Active" /\ ps.state.LastError = "nil") =>
        \A i \in 1..Len(db.fileLines) :
            ((i - 1) \notin ps.batchFileSkipLines)
                <=> (\A j \in (i + 1)..Len(db.fileLines) :
                        PKOf(db.fileLines[j], ps.pkColumns)
                            # PKOf(db.fileLines[i], ps.pkColumns))

\* C5 (as claimed): a Complete that was called on an Active stream and
\* returned an error left the status Failed and successfulRows 0.
C5_FailedCompleteZeroesRows ==
    (ret.op = "Complete" /\ ret.err \notin {"nil", "stream is not active", "panic"}) =>
        (ps.state.Status = "Failed" /\ ps.state.SuccessfulRows = 0)

\* C6: Complete or Abort on a stream that is not Active returns the
\* not-active error and changes nothing: not the stream (status, counters,
\* lastError, files, tables), not the destination, no call in the log.
C6_EndedStreamRejectsCompleteAbort ==
    [][(ps.state.Status # "Active" /\ (Complete \/ Abort)) =>
          (ps' = ps /\ db' = db /\ ret'.err = "stream is not active")]_vars

\* Complete or Abort was called on a stream that had ended, after that
\* stream had done work
C6_Witness ==
    /\ ps.state.Status \in {"Completed", "Failed", "Aborted"}
    /\ ret.op \in {"Complete", "Abort"} /\ ret.err = "stream is not active"
    /\ Len(db.calls) > 0

\* what a Consume that takes no object leaves alone
ConsumeWritesNothing ==
    /\ db'.fileLines = db.fileLines
    /\ ps'.eventsInBatch = ps.eventsInBatch
    /\ ps'.tmpTable = ps.tmpTable
    /\ ps'.batchFileLinesByPK = ps.batchFileLinesByPK
    /\ ps'.batchFileSkipLines = ps.batchFileSkipLines
    /\ CallNames(NewCalls) \cap {"Insert", "EnsureTmp"} = {}

\* C7 (as claimed): Consume on a stream that is not Active returns an error
\* and leaves successfulRows, errorRowIndex, lastError, the batch file, the
\* tmp-table descriptor and the dedup maps as they were, with no statement
\* sent through the tx.
C7_EndedStreamRejectsConsume ==
    [][(ps.state.Status # "Active" /\ Consume) =>
          /\ ret'.err # "nil"
          /\ ps'.state.SuccessfulRows = ps.state.SuccessfulRows
          /\ ps'.state.ErrorRowIndex = ps.state.ErrorRowIndex
          /\ ps'.state.LastError = ps.state.LastError
          /\ ConsumeWritesNothing
          /\ \A i \in 1..Len(NewCalls) : NewCalls[i][2] # "tx"]_vars

\* C8 (as claimed): on a transactional stream with a recorded error every
\* later Consume returns that error and writes nothing.
C8_ShortCircuitSameError ==
    [][(/\ ps.kind \in {"tx", "rp"} /\ ps.state.Status = "Active"
        /\ ps.state.LastError # "nil" /\ Consume) =>
          (ret'.err = ps.state.LastError /\ ConsumeWritesNothing)]_vars

\* C9 (as claimed): Complete on an Active ReplacePartition stream with a recorded error
\* issues no Delete, LoadTable, CreateTable, EnsureTable or CopyTables,
\* rolls an open tx back, returns the recorded error, ends Failed, and the
\* destination is as it was when the stream was created.
C9_RecordedErrorFailsComplete ==
    [][(/\ ps.kind = "rp" /\ ps.state.Status = "Active"
        /\ ps.state.LastError # "nil" /\ Complete) =>
          /\ CallNames(NewCalls) \subseteq {"Drop", "Rollback"}
          /\ db.tx = "open" => db'.tx = "rolledback"
          /\ ret'.err = ps.state.LastError
          /\ ps'.state.Status = "Failed"
          /\ db'.dst = db.dst /\ db'.dst = hist.dst0]_vars

LoadOrCopyCalls == {"Delete", "CreateTable", "LoadTable", "EnsureTable", "CopyTables"}

\* C11 (as claimed): Complete on an Active ReplacePartition stream with no
\* recorded error, whose destination exists without the __partition_id
\* column, issues no Delete, loads and copies nothing, rolls an open tx
\* back, ends Failed and leaves the destination as it was; with no
\* destination table it issues no Delete and goes on (it ends Completed
\* when every call it makes succeeds).
C11_UnmanagedDestinationIsFatal ==
    [][(/\ ps.kind = "rp" /\ ps.state.Status = "Active"
        /\ ps.state.LastError = "nil" /\ Complete) =>
          /\ (db.dst.exists /\ PartitonIdKeyword \notin db.dst.Columns) =>
                /\ CallNames(NewCalls) \cap LoadOrCopyCalls = {}
                /\ db.tx = "open" => db'.tx = "rolledback"
                /\ ps'.state.Status = "Failed"
                /\ db'.dst = db.dst
          /\ ~db.dst.exists =>
                /\ "Delete" \notin CallNames(NewCalls)
                /\ (\A i \in 1..Len(NewCalls) : NewCalls[i][3])
                      => ps'.state.Status = "Completed"]_vars

\* the calls Complete makes to clean up, whose errors it does not return
CleanupCalls == {"Drop", "Rollback", "DeleteObject"}

\* the error Complete returns when the call of this name fails
ErrorOfCall(name) ==
    CASE name = "GetTableSchema" -> "failed to check existence of table"
      [] name = "Delete" -> "failed to delete data for partitionId"
      [] name = "CreateTable" -> "failed to create table"
      [] name = "Upload" -> "failed to upload file to s3"
      [] name = "EnsureTable" -> "failed to ensure destination table"
      [] OTHER -> name

\* the adapter calls of this step that failed and are not cleanup
FailedWork == SelectSeq(NewCalls, LAMBDA c : ~c[3] /\ c[1] \notin CleanupCalls)

\* C12: when Complete of an Active transactional stream fails, what the
\* caller gets is the original error: the recorded Consume error if there
\* is one, else the error of the first call that failed in the commit
\* protocol; a failure of Drop, Rollback or DeleteObject in the cleanup
\* never replaces it.
C12_OriginalErrorReturned ==
    [][(/\ ps.kind \in {"tx", "rp"} /\ ps.state.Status = "Active" /\ Complete
        /\ (ret'.err # "nil" \/ ps.state.LastError # "nil"
                \/ FailedWork # <<>>)) =>
          /\ ret'.err \notin CleanupCalls \cup {"panic"}
          /\ ps'.state.LastError = ret'.err
          /\ ps.state.LastError # "nil" => ret'.err = ps.state.LastError
          /\ (ps.state.LastError = "nil" /\ FailedWork # <<>>)
                => ret'.err = ErrorOfCall(FailedWork[1][1])]_vars

\* C12, for the calls of Complete that return: the error value returned is
\* the original one and is the one recorded as lastError
C12_ErrorValueIsOriginal ==
    [][(/\ ps.kind \in {"tx", "rp"} /\ ps.state.Status = "Active" /\ Complete
        /\ ret'.err \notin {"nil", "panic"}) =>
          /\ ret'.err \notin CleanupCalls
          /\ ps'.state.LastError = ret'.err
          /\ ps.state.LastError # "nil" => ret'.err = ps.state.LastError
          /\ (ps.state.LastError = "nil" /\ FailedWork # <<>>)
                => ret'.err = ErrorOfCall(FailedWork[1][1])]_vars

\* a Complete failed, and in its cleanup the Drop of the tmp table failed
\* while the tx was still open
C12_Witness ==
    /\ ps.kind \in {"tx", "rp"} /\ ret.op = "Complete"
    /\ ps.state.Status = "Failed" /\ ret.err = ps.state.LastError
    /\ \E i \in 1..(Len(db.calls) - 1) :
          /\ db.calls[i] = <<"Drop", "tx", FALSE>>
          /\ db.calls[i + 1] = <<"Rollback", "tx", TRUE>>

\* what Abort does on an Active stream: Drop when a tx and a tmp table are
\* set, Rollback when a tx is set, the batch file closed and removed,
\* status Aborted, no error
AbortsActive ==
    /\ ret'.err = "nil"
    /\ ps'.state.Status = "Aborted"
    /\ "batch" \notin db'.files \cup db'.handles
    /\ ("Drop" \in CallNames(NewCalls))
            <=> (ps.kind # "fs" /\ ps.tx # "nil" /\ ~ps.tmpTable.nil)
    /\ ("Rollback" \in CallNames(NewCalls)) <=> (ps.kind # "fs" /\ ps.tx # "nil")
    /\ db.tx = "open" => db'.tx = "rolledback"
    /\ db'.dst = db.dst

\* C13 as stated: Abort on an Active stream cleans up and sets Aborted, and
\* a second Abort leaves the state as it is and returns what the first
\* call returned (no error).
C13_AbortIdempotent ==
    [][Abort =>
          /\ ps.state.Status = "Active" => AbortsActive
          /\ ps.state.Status = "Aborted" =>
                ps' = ps /\ db' = db /\ ret'.err = "nil"]_vars

\* C13 amended: Abort on an Active stream cleans up and sets Aborted; a
\* second Abort leaves the stream and the warehouse exactly as they are but
\* returns the error "stream is not active".
C13_SecondAbortRejected ==
    [][Abort =>
          /\ ps.state.Status = "Active" => AbortsActive
          /\ ps.state.Status = "Aborted" =>
                ps' = ps /\ db' = db /\ ret'.err = "stream is not active"]_vars

\* a stream with a tx and a tmp table was aborted, then aborted again
C13_Witness ==
    /\ ps.state.Status = "Aborted"
    /\ ret = [op |-> "Abort", err |-> "stream is not active"]
    /\ {"Drop", "Rollback"} \subseteq CallNames(db.calls)
    /\ db.tx = "rolledback"

DeliveryCalls == {"Commit", "CopyTables", "Upload"}

\* C15: from the Abort on, whatever is called afterwards, nothing of the
\* stream reaches the destination: no step makes a Commit, CopyTables or
\* Upload call, the stream stays Aborted, and the destination table and
\* the uploaded files are what they were before the stream.
C15_AbortedDeliversNothing ==
    [][(ps.state.Status = "Aborted" \/ ps'.state.Status = "Aborted") =>
          /\ CallNames(NewCalls) \cap DeliveryCalls = {}
          /\ ps'.state.Status = "Aborted"
          /\ db'.dst = hist.dst0
          /\ db'.uploaded = <<>>]_vars

\* an aborted stream on which Consume was called afterwards (its init
\* opened a tx), and then Complete, which was rejected
C15_Witness ==
    /\ ps.state.Status = "Aborted"
    /\ ret = [op |-> "Complete", err |-> "stream is not active"]
    /\ hist.consumes > 0
    /\ db.tx = "open"

\* C16: in every stream, file-storage included, a Consume call that
\* returns adds one to processedRows whatever its outcome, adds one to
\* successfulRows only when it returns no error, sets errorRowIndex to the
\* index of the failing object when it fails, and successfulRows never
\* exceeds processedRows.
C16_RowCounters ==
    [][(Consume /\ ret'.err # "panic") =>
          /\ ps'.state.ProcessedRows = ps.state.ProcessedRows + 1
          /\ ps'.state.SuccessfulRows = ps.state.SuccessfulRows
                    + (IF ret'.err = "nil" THEN 1 ELSE 0)
          /\ ret'.err # "nil" => ps'.state.ErrorRowIndex = ps.state.ProcessedRows
          /\ ps'.state.SuccessfulRows <= ps'.state.ProcessedRows]_vars

\* C17: the file a Complete hands to Upload or LoadTable holds exactly the
\* lines of the batch file that are not deduplicated away, in consume
\* order, whatever rewrite or conversion the flush made; a line that cannot
\* be read, decoded or re-marshalled makes the flush fail, so no file with
\* rows missing is ever delivered.
C17_BatchFileRoundTrip ==
    [][(Complete /\ ps.state.Status = "Active") =>
          LET expected == Retained(db.fileLines, ps.batchFileSkipLines) IN
          /\ db'.uploaded # db.uploaded =>
                db'.uploaded = Append(db.uploaded,
                                      [format |-> ps.format, rows |-> expected])
          /\ db'.loaded # db.loaded =>
                db'.loaded = Append(db.loaded, expected)]_vars

\* the calls of this name in a call log
CallsNamed(calls, name) == SelectSeq(calls, LAMBDA c : c[1] = name)

\* C18: on a file-storage stream fileAdapter.Upload is called at most once
\* over the whole life of the stream, and only by a Complete made while
\* the stream is Active with no recorded Consume error and at least one
\* successfully consumed object; no other step uploads anything.
C18_UploadAtMostOnce ==
    [][ps.kind = "fs" =>
          /\ Len(CallsNamed(db'.calls, "Upload")) <= 1
          /\ Len(db'.uploaded) <= 1
          /\ db'.uploaded # db.uploaded => "Upload" \in CallNames(NewCalls)
          /\ "Upload" \in CallNames(NewCalls) =>
                /\ Complete
                /\ ret'.op = "Complete"
                /\ ps.state.Status = "Active"
                /\ ps.state.LastError = "nil"
                /\ ps.state.SuccessfulRows > 0]_vars

\* a file-storage stream was completed and its one file uploaded, and
\* further calls were made on it afterwards
C18_Witness ==
    /\ ps.kind = "fs" /\ ps.state.Status = "Completed"
    /\ Len(db.uploaded) = 1
    /\ Len(CallsNamed(db.calls, "Upload")) = 1
    /\ ret = [op |-> "Complete", err |-> "stream is not active"]

\* C19: a constructor called without a required option (ReplacePartition
\* without a partition id, file storage with MergeRows and no primary key)
\* returns an error and no stream, and creates nothing: no tx is opened, no
\* file exists, no adapter call was made, and nothing can be called later.
C19_MissingOptionFailsConstruction ==
    MissingOption(hist.options) =>
        /\ ps = NoStream
        /\ ret.op = "new" /\ ret.err # "nil"
        /\ db = NewDb(hist.dst0)
        /\ db.tx = "none" /\ db.files = {} /\ db.calls = <<>>

\* the constructor of a ReplacePartition stream was called without a
\* partition id and returned its error
C19_Witness ==
    /\ hist.options.kind = "rp" /\ hist.options.partitionId = NoPartition
    /\ ps = NoStream
    /\ ret = [op |-> "new",
              err |-> "WithPartition is required option for ReplacePartitionStream"]

\* the constructor of a file-storage stream was called with MergeRows and
\* no primary key and returned its error
C19_WitnessFS ==
    /\ hist.options.kind = "fs" /\ hist.options.merge /\ hist.options.pk = <<>>
    /\ ps = NoStream
    /\ ret = [op |-> "new", err |-> "MergeRows option requires primary key option"]

\* the rows a stream has written: the lines of its batch file, the rows of
\* its tmp table, and the rows of the files it gave to LoadTable
WrittenRows ==
    Range(db.fileLines) \cup Range(db.tmp.rows)
        \cup UNION {Range(db.loaded[i]) : i \in 1..Len(db.loaded)}

\* C20: every row a ReplacePartition stream writes to its batch file or
\* tmp table carries __partition_id equal to the stream's partition id,
\* whatever __partition_id the caller's object had; the stream writes no
\* row of another partition.
C20_RowsCarryPartitionId ==
    ps.kind = "rp" =>
        \A r \in WrittenRows :
            /\ PartitonIdKeyword \in DOMAIN r
            /\ r[PartitonIdKeyword] = ps.partitionId

\* an object that came with its own __partition_id was consumed and its
\* row is written under the stream's partition id
C20_Witness ==
    /\ ps.kind = "rp"
    /\ ObjC[PartitonIdKeyword] # ps.partitionId
    /\ \E r \in WrittenRows :
          /\ r["v"] = ObjC["v"]
          /\ r[PartitonIdKeyword] = ps.partitionId

\* the calls of the commit protocol that follow the partition Delete
AfterDeleteCalls == {"CreateTable", "LoadTable", "EnsureTable", "CopyTables", "Commit"}

\* C21: in Complete of a ReplacePartition stream the partition Delete goes
\* through the sqlAdapter (auto-commit), not the tx, and comes before every
\* CreateTable, LoadTable, CopyTables and Commit of that Complete; a
\* Rollback later in the same Complete does not bring the deleted rows
\* back: unless the stream ends Completed, the destination is left with
\* the rows of the other partitions only.
C21_DeleteOutsideTx ==
    [][(ps.kind = "rp" /\ ps.state.Status = "Active" /\ Complete) =>
          \A i \in 1..Len(NewCalls) :
              NewCalls[i][1] = "Delete" =>
                /\ NewCalls[i][2] = "sqlAdapter"
                /\ \A j \in 1..Len(NewCalls) :
                      NewCalls[j][1] \in AfterDeleteCalls => i < j
                /\ (NewCalls[i][3] /\ ps'.state.Status # "Completed") =>
                      db'.dst.rows = OffPartition(db.dst.rows, ps.partitionId)]_vars

\* a Complete deleted the rows of the partition, failed later and rolled
\* its tx back; the rows the partition held before are gone
C21_Witness ==
    /\ ps.kind = "rp" /\ ps.state.Status = "Failed" /\ ret.op = "Complete"
    /\ InPartition(hist.dst0.rows, ps.partitionId) # <<>>
    /\ InPartition(db.dst.rows, ps.partitionId) = <<>>
    /\ \E i, j \in 1..Len(db.calls) :
          /\ i < j
          /\ db.calls[i] = <<"Delete", "sqlAdapter", TRUE>>
          /\ db.calls[j] = <<"Rollback", "tx", TRUE>>

\* the keys the stream may compute for a line of its batch file
LinePKs(p, line) ==
    IF p.kind = "fs"
    THEN {FSgetPKValue(p, line, ord).pk : ord \in Orders(p.pkColumns)}
    ELSE {TXgetPKValue(p, line).pk}

\* C22: in every state of a merge stream that writes a batch file, also
\* after a Consume whose Marshal failed, every skipped line is a line of
\* the file (0 <= line < eventsInBatch), and every key of linesByPK points
\* at a line that was written, holds an object of that key, and is the
\* last line of that key.
C22_DedupBookkeeping ==
    (ps.kind \in Kinds /\ ps.merge) =>
        /\ ps.batchFileSkipLines \subseteq 0..(ps.eventsInBatch - 1)
        /\ \A pk \in DOMAIN ps.batchFileLinesByPK :
              LET n == ps.batchFileLinesByPK[pk] IN
              /\ n \in 0..(ps.eventsInBatch - 1)
              /\ n < Len(db.fileLines)
              /\ pk \in LinePKs(ps, db.fileLines[n + 1])
              /\ \A j \in (n + 2)..Len(db.fileLines) :
                    pk \notin LinePKs(ps, db.fileLines[j])

\* C23: when a transactional stream whose tx was opened reaches a terminal
\* status, the status agrees with what was done to the tx: reaching Failed
\* or Aborted, Rollback was invoked and the tx is not left open; reaching
\* Completed, Commit was invoked and succeeded and Rollback never was.
C23_StatusAgreesWithTx ==
    [][(/\ ps.kind \in {"tx", "rp"} /\ ps.tx # "nil"
        /\ ps.state.Status = "Active" /\ ps'.state.Status # "Active") =>
          /\ ps'.state.Status \in {"Failed", "Aborted"} =>
                /\ "Rollback" \in CallNames(NewCalls)
                /\ db'.tx # "open"
          /\ ps'.state.Status = "Completed" =>
                /\ <<"Commit", "tx", TRUE>> \in Range(NewCalls)
                /\ "Rollback" \notin CallNames(db'.calls)
                /\ db'.tx = "committed"]_vars

\* C23 for the steps in which Commit is not what failed
C23_AgreesUnlessCommitFails ==
    [][(/\ ps.kind \in {"tx", "rp"} /\ ps.tx # "nil"
        /\ ps.state.Status = "Active" /\ ps'.state.Status # "Active"
        /\ <<"Commit", "tx", FALSE>> \notin Range(NewCalls)) =>
          /\ ps'.state.Status \in {"Failed", "Aborted"} =>
                /\ "Rollback" \in CallNames(NewCalls)
                /\ db'.tx # "open"
          /\ ps'.state.Status = "Completed" =>
                /\ <<"Commit", "tx", TRUE>> \in Range(NewCalls)
                /\ "Rollback" \notin CallNames(db'.calls)
                /\ db'.tx = "committed"]_vars

\* the Drop of the tmp table comes, in the calls of this step, through the
\* tx and before every Commit and Rollback
DropBeforeTxEnds ==
    \E i \in 1..Len(NewCalls) :
        /\ NewCalls[i][1] = "Drop" /\ NewCalls[i][2] = "tx"
        /\ \A j \in 1..Len(NewCalls) :
              NewCalls[j][1] \in {"Commit", "Rollback"} => i < j

\* C24: the tmp table is set by a Consume (the first object that reaches
\* adjustTables), never before; and whenever a transactional stream with a
\* tmp table and an open tx reaches Completed, Failed or Aborted, Drop of
\* the tmp table is issued through the tx before the Commit or Rollback of
\* that tx; when only the Drop fails, Commit is still attempted.
C24_DropBeforeTxEnds ==
    [][/\ (ps.kind \in {"tx", "rp"} /\ ps.tmpTable.nil /\ ~ps'.tmpTable.nil)
            => (Consume /\ ps.state.SuccessfulRows = 0)
       /\ (/\ ps.kind \in {"tx", "rp"} /\ ~ps.tmpTable.nil /\ db.tx = "open"
           /\ ps.state.Status = "Active" /\ ps'.state.Status # "Active") =>
             /\ DropBeforeTxEnds
             /\ (<<"Drop", "tx", FALSE>> \in Range(NewCalls)
                    /\ "Rollback" \notin CallNames(NewCalls))
                  => "Commit" \in CallNames(NewCalls)
             /\ (<<"Drop", "tx", FALSE>> \in Range(NewCalls)
                    /\ <<"Commit", "tx", TRUE>> \in Range(NewCalls))
                  => ps'.state.Status = "Completed" /\ ret'.err = "nil"]_vars

\* C24 for the Batch stream alone
C24_BatchDropBeforeTxEnds ==
    [][/\ (ps.kind = "tx" /\ ps.tmpTable.nil /\ ~ps'.tmpTable.nil)
            => (Consume /\ ps.state.SuccessfulRows = 0)
       /\ (/\ ps.kind = "tx" /\ ~ps.tmpTable.nil /\ db.tx = "open"
           /\ ps.state.Status = "Active" /\ ps'.state.Status # "Active") =>
             /\ DropBeforeTxEnds
             /\ (<<"Drop", "tx", FALSE>> \in Range(NewCalls)
                    /\ "Rollback" \notin CallNames(NewCalls))
                  => "Commit" \in CallNames(NewCalls)
             /\ (<<"Drop", "tx", FALSE>> \in Range(NewCalls)
                    /\ <<"Commit", "tx", TRUE>> \in Range(NewCalls))
                  => ps'.state.Status = "Completed" /\ ret'.err = "nil"]_vars

\* C25: Complete of a ReplacePartition stream never narrows the
\* destination schema: the column set it gives to EnsureTableWithCaching
\* holds every column of the existing destination table and every column
\* of the tmp table, and the destination keeps all its columns.
C25_EnsureGetsUnion ==
    [][(ps.kind = "rp" /\ Complete /\ db'.ensured # db.ensured) =>
          LET given == db'.ensured[Len(db'.ensured)] IN
          /\ ps.tmpTable.Columns \subseteq given
          /\ db.dst.Columns \subseteq given
          /\ db.dst.Columns \subseteq db'.dst.Columns]_vars

\* C25 without the part on what is given: the destination table itself
\* keeps all its columns and gets those of the tmp table
C25_DestinationKeepsColumns ==
    [][(ps.kind = "rp" /\ Complete /\ db'.ensured # db.ensured) =>
          LET given == db'.ensured[Len(db'.ensured)] IN
          /\ given = ps.tmpTable.Columns
          /\ db'.dst.Columns = db.dst.Columns \cup ps.tmpTable.Columns]_vars

\* C26: no Consume of a transactional stream, on the batch-file path or
\* the direct-insert path, changes the destination table's schema or rows:
\* apart from opening the tx, every statement of a Consume goes through the
\* tx and none of them is a CopyTables or a Commit.
C26_ConsumeLeavesDestination ==
    [][(ps.kind \in {"tx", "rp"} /\ Consume) =>
          /\ db'.dst = db.dst
          /\ db'.ensured = db.ensured
          /\ \A i \in 1..Len(NewCalls) :
                \/ NewCalls[i][1] = "OpenTx"
                \/ /\ NewCalls[i][2] = "tx"
                   /\ NewCalls[i][1] \notin {"CopyTables", "Commit"}]_vars

\* two objects were inserted directly into the tmp table and the
\* destination is as the stream found it
C26_Witness ==
    /\ ps.kind \in {"tx", "rp"} /\ ps.state.Status = "Active"
    /\ ps.batchFile = "nil" /\ ret.op = "Consume"
    /\ Len(db.tmp.rows) = 2
    /\ ps.state.SuccessfulRows = 2
    /\ db.dst = hist.dst0

\* C27: when staging goes through S3, every Upload attempted by the flush
\* of a Complete, finished or failed part-way, is followed in the same
\* Complete by a DeleteObject, whether LoadTable then succeeded or failed;
\* unless that DeleteObject itself fails, no staging object is left when
\* Complete returns.
C27_StagingObjectDeleted ==
    [][(ps.kind \in {"tx", "rp"} /\ Complete) =>
          \A i \in 1..Len(NewCalls) :
              (NewCalls[i][1] = "Upload" /\ NewCalls[i][2] = "s3") =>
                /\ \E j \in (i + 1)..Len(NewCalls) :
                      NewCalls[j][1] = "DeleteObject"
                /\ <<"DeleteObject", "s3", FALSE>> \notin Range(NewCalls)
                      => db'.staged = {}]_vars

\* C27 for the uploads that returned without error
C27_FinishedUploadDeleted ==
    [][(ps.kind \in {"tx", "rp"} /\ Complete) =>
          \A i \in 1..Len(NewCalls) :
              NewCalls[i] = <<"Upload", "s3", TRUE>> =>
                /\ \E j \in (i + 1)..Len(NewCalls) :
                      NewCalls[j][1] = "DeleteObject"
                /\ <<"DeleteObject", "s3", FALSE>> \notin Range(NewCalls)
                      => db'.staged = {}]_vars

\* the Complete of this step ran flushBatchFile
FlushRan ==
    /\ Complete /\ ps.state.Status = "Active" /\ ret'.err # "panic"
    /\ IF ps.kind = "fs"
       THEN /\ ps.state.LastError = "nil" /\ ps.state.SuccessfulRows > 0
            /\ ps.batchFile # "nil"
       ELSE "CreateTable" \in CallNames(NewCalls)

\* C28: whichever way flushBatchFile returns, in both streams, every file
\* handle opened for the flush is closed (batch file, working file, the
\* handle that re-reads the batch file, the handle read by the S3 upload),
\* every temporary file is removed, and the dedup maps are reset.
C28_FlushReleasesEverything ==
    [][FlushRan =>
          /\ db'.handles = {}
          /\ db'.files = {}
          /\ ps'.batchFileSkipLines = {}
          /\ ps'.batchFileLinesByPK = <<>>]_vars

\* C28 without the two handles that are only read from, and without the
\* reset of the maps when CreateTable fails
C28_FilesRemoved ==
    [][FlushRan =>
          /\ db'.handles \subseteq {"reread", "s3read"}
          /\ db'.files = {}
          /\ <<"CreateTable", "tx", FALSE>> \notin Range(NewCalls) =>
                /\ ps'.batchFileSkipLines = {}
                /\ ps'.batchFileLinesByPK = <<>>]_vars

\* this Consume counted its object as successfully consumed
CountedSuccessful ==
    Consume /\ ps'.state.SuccessfulRows > ps.state.SuccessfulRows

\* what a successfully consumed object needs of init: the marshallers where
\* a batch file is written, the tx where the stream is transactional
InitComplete(p) ==
    /\ p.kind = "fs" => p.marshaller = "set" /\ p.targetMarshaller = "set"
    /\ p.kind \in {"tx", "rp"} =>
          /\ p.tx = "set"
          /\ p.localBatchFile =>
                p.marshaller = "set" /\ p.targetMarshaller = "set"

\* C29: init is idempotent with respect to resources. Over the Consume calls
\* of one stream, also when an earlier init failed part-way and runs again,
\* OpenTx is called at most once and at most one batch file is created, and
\* no object is counted as successfully consumed while the tx or a
\* marshaller is missing.
C29_InitIdempotent ==
    [][/\ Consume => /\ Len(CallsNamed(db'.calls, "OpenTx")) <= 1
                     /\ db'.created <= 1
       /\ CountedSuccessful => InitComplete(ps')]_vars

\* C29 without the object counted while a Consume panics
C29_InitResourcesOnce ==
    [][/\ Consume => /\ Len(CallsNamed(db'.calls, "OpenTx")) <= 1
                     /\ db'.created <= 1
       /\ CountedSuccessful /\ ret'.err # "panic" => InitComplete(ps')]_vars

\* this step uploaded a file of a file-storage stream whose target is CSV
CsvUploaded ==
    /\ ps.kind = "fs" /\ ps.format = "csv"
    /\ Len(db'.uploadedLines) = Len(db.uploadedLines) + 1

\* the keys of all objects consumed before this step: each of them is a
\* line of the batch file, skipped or not
ConsumedKeys == UNION {DOMAIN db.fileLines[i] : i \in 1..Len(db.fileLines)}

\* C30: the file uploaded by a file-storage stream whose target format is
\* CSV starts with exactly one header line, the sorted union of the keys
\* of all objects consumed so far, followed by one row per retained object
\* in consume order; with merge on id, two objects of the same id give the
\* header and the single last row.
C30_CsvHeaderAndRows ==
    [][CsvUploaded =>
          db'.uploadedLines[Len(db'.uploadedLines)] =
              CSVLines(SortStrings(ConsumedKeys),
                       Retained(db.fileLines, ps.batchFileSkipLines))]_vars

\* C30 for the header alone, and for the rows when none was lost in the
\* conversion
C30_HeaderIsSortedUnion ==
    [][CsvUploaded =>
          LET file == db'.uploadedLines[Len(db'.uploadedLines)]
              header == SortStrings(ConsumedKeys)
              retained == Retained(db.fileLines, ps.batchFileSkipLines)
          IN /\ Head(file) = header
             /\ \A i \in 2..Len(file) : file[i] # header
             /\ Len(file) <= 1 + Len(retained)
             /\ Len(file) = 1 + Len(retained) => file = CSVLines(header, retained)]_vars

\* the example of C30: merge on id, two objects of id 1, the file holds the
\* header and the row of the second
C30_ExampleUploaded ==
    /\ ps.kind = "fs" /\ ps.format = "csv" /\ ps.merge /\ ps.pkColumns = <<"id">>
    /\ db.fileLines = <<ObjA, ObjB>>
    /\ db.uploadedLines = <<CSVLines(<<"id", "k", "v">>, <<ObjB>>)>>

\* the earliest and the latest of a non-empty set of times
MinTime(times) == CHOOSE a \in times : \A b \in times : a <= b
MaxTimeOf(times) == CHOOSE a \in times : \A b \in times : b <= a

\* C31: after any sequence of Consume calls on a file-storage stream,
\* firstEventTime is the minimum and lastEventTime the maximum of the event
\* times of all objects that got past init, so firstEventTime is not after
\* lastEventTime; this for every event time, the zero time included.
C31_EventTimeBounds ==
    (ps.kind = "fs" /\ hist.eventTimes # {}) =>
        /\ ps.firstEventTime = MinTime(hist.eventTimes)
        /\ ps.lastEventTime = MaxTimeOf(hist.eventTimes)
        /\ ps.firstEventTime <= ps.lastEventTime

\* C31 for objects whose event time is not the zero time, and the order of
\* the two times for all of them
C31_BoundsOfNonZeroTimes ==
    (ps.kind = "fs" /\ hist.eventTimes # {}) =>
        /\ ZeroTime \notin hist.eventTimes =>
              /\ ps.firstEventTime = MinTime(hist.eventTimes)
              /\ ps.lastEventTime = MaxTimeOf(hist.eventTimes)
        /\ ps.firstEventTime <= ps.lastEventTime

\* C32: getPKValue is a deterministic, injective key: the same object
\* always gives the same key string, and two objects give the same key
\* string exactly when their values are equal in every primary-key column;
\* a missing column, the order of the columns or a value that holds the
\* separator changes nothing of this.
C32_KeyDeterministicInjective ==
    \A i, j \in 1..Len(hist.calls) :
        LET a == hist.calls[i]
            b == hist.calls[j]
        IN /\ a.object = b.object => a.pk = b.pk /\ a.err = b.err
           /\ (a.err = "nil" /\ b.err = "nil") =>
                 (a.pk = b.pk <=> PKOf(a.object, ps.pkColumns)
                                     = PKOf(b.object, ps.pkColumns))

\* C32 for the transactional stream, one way: its key is a function of the
\* values in the key columns, in the configured order
C32_TxKeyFollowsValues ==
    ps.kind = "tx" =>
        \A i, j \in 1..Len(hist.calls) :
            LET a == hist.calls[i]
                b == hist.calls[j]
            IN /\ a.err = "nil"
               /\ PKOf(a.object, ps.pkColumns) = PKOf(b.object, ps.pkColumns)
                     => a.pk = b.pk

\* C33: Complete on an Active file-storage stream on which Consume was
\* never called (init never ran, there is no batch file) ends normally: it
\* returns no error, uploads nothing and sets the status Completed.
C33_CompleteWithoutConsume ==
    [][(/\ Complete /\ ps.kind = "fs" /\ ps.state.Status = "Active"
        /\ hist.consumes = 0 /\ ps.batchFile = "nil") =>
          /\ ret'.err = "nil"
          /\ db'.uploaded = db.uploaded
          /\ ps'.state.Status = "Completed"]_vars

\* C33 for what does hold: nothing is uploaded
C33_NothingUploaded ==
    [][(/\ Complete /\ ps.kind = "fs" /\ ps.state.Status = "Active"
        /\ hist.consumes = 0 /\ ps.batchFile = "nil") =>
          /\ db'.uploaded = db.uploaded
          /\ "Upload" \notin CallNames(NewCalls)]_vars

\* the last call of Init returned an error
InitFailed == hist.result \notin {"none", "running", "nil"}

\* C34: StreamsRepositoryData.Init publishes a snapshot atomically. What a
\* GetData running beside Init returns is a complete snapshot, the one
\* before or the new one: streams, apiKeyBindings, streamsByIds and
\* streamsByDomains read through it all come from the same load. When Init
\* returns an error (opening token, an element that does not decode,
\* closing bracket) the snapshot stored before is left as it was.
C34_SnapshotAtomic ==
    /\ ret.p # 0 =>
          \E d \in hist.stored :
              \A i \in 1..Len(ret.view) :
                  ret.view[i] = [load |-> d.load, val |-> d[StreamsFields[i]]]
    /\ ps.data # 0 => db.heap[ps.data] \in hist.stored
    /\ InitFailed => ps.data = hist.dataAtStart /\ db.heap = hist.heapAtStart

\* a reader got the first snapshot, a second one was stored while it was
\* reading the fields, and it read all four from the first
C34_Witness ==
    /\ Len(ret.view) = Len(StreamsFields)
    /\ ret.view[1].load = 1 /\ ret.pc = "idle"
    /\ ps.data = 2 /\ db.heap[2].load = 2
    /\ db.heap[1].streams # db.heap[2].streams

\* an Init that failed on its second element after a snapshot was stored
C34_WitnessFailed ==
    /\ InitFailed /\ hist.loads = 2 /\ ps.data = 1
    /\ hist.result = "Error unmarshalling stream config"

\* the entries of the TLS list for a domain
TLSEntries(domain) == Len(SelectSeq(ps.tls, LAMBDA h : h = domain))

\* C35: after any interleaving of repeated or concurrent AddDomain calls
\* that passed the DNS check and returned without error, the TLS list of
\* the ingress holds exactly one entry for each added domain: no domain
\* added by one call is lost through another call, none is there twice.
C35_OneEntryPerDomain ==
    /\ \A d \in hist.added : TLSEntries(d) = 1
    /\ \A d \in Domains : TLSEntries(d) <= 1

\* C35 for calls made one after the other
C35_OneEntryWhenSequential ==
    ~hist.overlap => /\ \A d \in hist.added : TLSEntries(d) = 1
                     /\ \A d \in Domains : TLSEntries(d) <= 1

====
